---------------------------- MODULE Spec2Model ----------------------------
(***************************************************************************)
(* A model of the CrypTalker messaging core: the offline delivery queue    *)
(* (lib/offline-queue), the session store and X3DH handshake               *)
(* (lib/session.ts), the simulated primitives (lib/crypto) and the message *)
(* pipeline (lib/message-pipeline).                                        *)
(*                                                                         *)
(* Every await of the source is a point where another flow may run; the    *)
(* code between two awaits runs atomically (one JavaScript job), and is    *)
(* one action here.  Date.now() is the variable now; Math.random() is a    *)
(* choice from a small set.                                                *)
(***************************************************************************)
EXTENDS Integers, Sequences, FiniteSets, Bags, TLC

(***************************************************************************)
(* Bounds of the model.                                                    *)
(***************************************************************************)
MaxMessages == 1      \* queueMessage calls explored
MaxInFlight == 4      \* send attempts awaiting the transport at one time
MaxTime == 4000       \* the clock of the queue stops advancing past this many ms
MaxTasks == 2         \* pipeline calls (encrypt, decrypt, rekey) in progress at one time
MaxCounter == 2       \* no encryptMessage call starts on a session whose counter reached this
MaxEvolutions == 1    \* no chain key is evolved again after this many evolutions
MaxEnvelopes == 2     \* envelopes put on the network
MaxHandshakes == 3     \* completeHandshake calls
MaxHandshakeMessages == 2  \* handshake messages sent
MaxSessionTime == 1   \* the clock of the session model stops advancing past this many ms
MaxSerialTime == 34000  \* the clock of the retry scenario stops advancing past this many ms
MaxOutgoing == 2      \* processOutgoingMessage calls in progress or stored

(***************************************************************************)
(* Program constants.                                                      *)
(***************************************************************************)
DefaultMaxRetries == 5
BaseDelayMs == 1000
CapDelayMs == 60000
JitterMs == 1000

PreKeyCount == 5
OneTimeKeyCount == 10

Users == {"alice", "bob"}
Undefined == "undefined"

\* localStorage before the first setItem("offline_queue_v1", ...)
NoItem == [present |-> FALSE]

\* the JavaScript runtimes (one per device), each with its own sessionStore
Procs == {"p1", "p2"}
\* Math.random(), as far as it is told apart
RandomDraws == {"r1", "r2"}

VARIABLES
  state,         \* offlineQueueManager.state
  localStorage,  \* the item "offline_queue_v1" of localStorage
  inflight,      \* bag of processMessage calls awaiting the transport
  drain,         \* the processPendingMessages call in progress, if any
  nextId,        \* generateUUID: the next fresh message id
  now,           \* Date.now()
  failures,      \* history: the send attempts of each message the transport rejected
                 \* since the message was queued or last retried
  sessionStore,  \* the Map sessionStore of each process: session id -> object
  heap,          \* the SessionState objects of each process
  tasks,         \* the encryptMessage / decryptMessage / rekeySession calls in progress
  network,       \* the envelopes sent so far (an envelope may be presented again)
  accepted,      \* history: the highest messageCounter among the envelopes each process accepted
  handshakes,    \* the handshake messages sent so far
  completed,     \* history: the one-time pre-keys the completeHandshake calls used
  pipeline,      \* pipeline.queue of the MessagePipeline of each process
  db,            \* db.messages of each process: conversation id -> stored messages
  receipts,      \* db.receipts of each process: message id -> read receipts
  deviceRegistry,        \* the Map deviceRegistry: user id -> DeviceInfo objects
  deviceSyncQueue,       \* the Map deviceSyncQueue: user id -> DeviceSync events
  keyRotationSchedules,  \* the Map keyRotationSchedules: device id -> schedule
  dbDevices,             \* db.devices: user id -> Device records
  deviceCalls,           \* the registerDevice / rotateKeys calls in progress
  syncLog,               \* history: every sync event queueDeviceSync recorded
  consumed               \* history: <<device id, sync id>> for each event a device acknowledged

queueVars == <<state, localStorage, inflight, drain, nextId, failures>>
outVars == <<pipeline, db, receipts>>
sessionVars == <<sessionStore, heap, tasks, network, accepted, handshakes, completed,
                 pipeline, db, receipts>>
deviceVars == <<deviceRegistry, deviceSyncQueue, keyRotationSchedules, dbDevices,
                deviceCalls, syncLog, consumed>>
vars == <<state, localStorage, inflight, drain, nextId, now, failures,
          sessionStore, heap, tasks, network, accepted, handshakes, completed,
          pipeline, db, receipts,
          deviceRegistry, deviceSyncQueue, keyRotationSchedules, dbDevices,
          deviceCalls, syncLog, consumed>>

\* the SessionState objects one runtime can hold: the stored one and those
\* that calls in progress still refer to
HeapSize == MaxTasks + 2
NoObj == [state |-> "none"]
Idle == [kind |-> "idle"]

\* no session, no call in progress, nothing sent
SessionInit ==
  /\ sessionStore = [p \in Procs |-> <<>>]
  /\ heap = [p \in Procs |-> [i \in 1..HeapSize |-> NoObj]]
  /\ tasks = [i \in 1..MaxTasks |-> Idle]
  /\ network = {}
  /\ accepted = [p \in Procs |-> 0]
  /\ handshakes = {}
  /\ completed = EmptyBag
  /\ pipeline = [p \in Procs |-> <<>>]
  /\ db = [p \in Procs |-> <<>>]
  /\ receipts = [p \in Procs |-> <<>>]

\* how many registerDevice / rotateKeys calls are followed at once
MaxDeviceCalls == 1

\* no call in this slot
NoCall == [kind |-> "idle"]

\* the module-level Maps of lib/device-manager and db.devices, all empty
DeviceInit ==
  /\ deviceRegistry = <<>>
  /\ deviceSyncQueue = <<>>
  /\ keyRotationSchedules = <<>>
  /\ dbDevices = <<>>
  /\ deviceCalls = [i \in 1..MaxDeviceCalls |-> NoCall]
  /\ syncLog = <<>>
  /\ consumed = {}

----------------------------------------------------------------------------
(***************************************************************************)
(* Offline queue: helpers.                                                 *)
(***************************************************************************)

\* Math.pow(2, n)
RECURSIVE Pow2(_)
Pow2(n) == IF n = 0 THEN 1 ELSE 2 * Pow2(n - 1)

Min(a, b) == IF a <= b THEN a ELSE b

\* getRetryDelay without the jitter term
BackoffDelay(attemptNumber) == Min(BaseDelayMs * Pow2(attemptNumber), CapDelayMs)

\* Math.random() * 1000, floored: the two ends of [0, 1000)
JitterChoices == {0, JitterMs - 1}

getRetryDelay(attemptNumber, jitter) == BackoffDelay(attemptNumber) + jitter

\* state.messages.get(userId) || []
UserMessages(st, userId) ==
  IF userId \in DOMAIN st.messages THEN st.messages[userId] ELSE <<>>

\* userMessages.findIndex((m) => m.id === messageId); 0 stands for -1
FindIndex(list, messageId) ==
  IF \E i \in 1..Len(list) : list[i].id = messageId
    THEN CHOOSE i \in 1..Len(list) :
           /\ list[i].id = messageId
           /\ \A j \in 1..(i - 1) : list[j].id # messageId
    ELSE 0

\* the user whose list holds messageId (the loops of markDelivered and
\* retryMessage over state.messages); ids are unique, so at most one does
OwnerOf(st, messageId) ==
  {u \in DOMAIN st.messages : FindIndex(st.messages[u], messageId) # 0}

\* Array.from(state.messages.keys()): a Map iterates in insertion order, and a
\* key is inserted by the push of its first message, so the keys are ordered
\* by the id of their first message
RECURSIVE KeysInOrder(_, _)
KeysInOrder(st, keys) ==
  IF keys = {} THEN <<>>
  ELSE LET first == CHOOSE u \in keys :
                      \A v \in keys : st.messages[u][1].id <= st.messages[v][1].id
       IN <<first>> \o KeysInOrder(st, keys \ {first})

\* saveToStorage: JSON.stringify of {messages, deliveryStatus, lastSyncTime}
saveToStorage(st) ==
  [messages |-> st.messages,
   deliveryStatus |-> st.deliveryStatus,
   lastSyncTime |-> st.lastSyncTime]

\* a QueuedMessage literal with a smaller retry budget
NewMessage_Off(id, userId, t) ==
  [id |-> id, userId |-> userId, attempts |-> 0,
   maxRetries |-> DefaultMaxRetries - 1, nextRetryTime |-> t,
   status |-> "pending", error |-> Undefined]

\* the QueuedMessage literal of queueMessage
NewMessage(id, userId, t) ==
  [id |-> id, userId |-> userId, attempts |-> 0,
   maxRetries |-> DefaultMaxRetries, nextRetryTime |-> t,
   status |-> "pending", error |-> Undefined]

\* the test `message.attempts >= message.maxRetries` of processMessage
MaxRetriesExceeded_Off(message) == message.attempts > message.maxRetries

MaxRetriesExceeded(message) == message.attempts >= message.maxRetries

(***************************************************************************)
(* processMessage up to its await: the result is the new state, the new    *)
(* storage item, the value returned when the call returns at once, and     *)
(* whether a send attempt was started (attempts incremented, transport     *)
(* pending).                                                               *)
(***************************************************************************)
ProcessMessageSync_Off(st, ls, userId, messageId, t) ==
  LET userMessages == UserMessages(st, userId)
      idx == FindIndex(userMessages, messageId)
      message == userMessages[idx]
      early(res) == [state |-> st, localStorage |-> ls,
                     started |-> FALSE, result |-> res]
  IN
  IF userId \notin DOMAIN st.messages THEN early(FALSE)
  ELSE IF idx = 0 THEN early(FALSE)
  ELSE IF message.status \in {"sent", "delivered"} THEN early(TRUE)
  ELSE IF MaxRetriesExceeded(message) THEN
    LET st1 == [st EXCEPT !.messages[userId][idx].status = "failed",
                          !.messages[userId][idx].error = "Max retries exceeded"]
    IN [state |-> st1, localStorage |-> saveToStorage(st1),
        started |-> FALSE, result |-> FALSE]
  ELSE
    [state |-> [st EXCEPT !.messages[userId][idx].attempts = @ + 1],
     localStorage |-> ls, started |-> TRUE, result |-> FALSE]

ProcessMessageSync(st, ls, userId, messageId, t) ==
  LET userMessages == UserMessages(st, userId)
      idx == FindIndex(userMessages, messageId)
      message == userMessages[idx]
      early(res) == [state |-> st, localStorage |-> ls,
                     started |-> FALSE, result |-> res]
  IN
  IF userId \notin DOMAIN st.messages THEN early(FALSE)
  ELSE IF idx = 0 THEN early(FALSE)
  ELSE IF message.status \in {"sent", "delivered"} THEN early(TRUE)
  ELSE IF message.nextRetryTime > t THEN early(FALSE)
  ELSE IF MaxRetriesExceeded(message) THEN
    LET st1 == [st EXCEPT !.messages[userId][idx].status = "failed",
                          !.messages[userId][idx].error = "Max retries exceeded"]
    IN [state |-> st1, localStorage |-> saveToStorage(st1),
        started |-> FALSE, result |-> FALSE]
  ELSE
    [state |-> [st EXCEPT !.messages[userId][idx].attempts = @ + 1],
     localStorage |-> ls, started |-> TRUE, result |-> FALSE]

\* an in-flight send attempt: the call of processMessage awaiting its timer;
\* owner is "drain" when processPendingMessages awaits it, "call" otherwise
Attempt(userId, messageId, owner) ==
  [userId |-> userId, messageId |-> messageId, owner |-> owner]

AddAttempt(bag, a) == bag (+) SetToBag({a})
RemoveAttempt(bag, a) == bag (-) SetToBag({a})

\* the timer callback of processMessage rejects when the random draw says so
\* and the message has attempts left
TransportRejects(message, draw) ==
  draw /\ message.attempts < message.maxRetries

OnSendResolved_Off(st, userId, idx) ==
  LET message == st.messages[userId][idx]
  IN IF message.id \in DOMAIN st.deliveryStatus
       THEN [st EXCEPT !.deliveryStatus[message.id].status = "sent",
                       !.deliveryStatus[message.id].retries = message.attempts]
       ELSE st

\* the code of processMessage after `message.status = "sent"` (success path)
OnSendResolved(st, userId, idx) ==
  LET message == st.messages[userId][idx]
      st1 == [st EXCEPT !.messages[userId][idx].status = "sent"]
  IN IF message.id \in DOMAIN st1.deliveryStatus
       THEN [st1 EXCEPT !.deliveryStatus[message.id].status = "sent",
                        !.deliveryStatus[message.id].retries = message.attempts]
       ELSE st1

\* a catch block that marks the message as being sent again
OnSendRejected_Off(st, userId, idx, t, jitter) ==
  LET message == st.messages[userId][idx]
      st1 == [st EXCEPT
                !.messages[userId][idx].nextRetryTime =
                   t + getRetryDelay(message.attempts, jitter),
                !.messages[userId][idx].error = "Network timeout",
                !.messages[userId][idx].status = "sending"]
  IN IF message.id \in DOMAIN st1.deliveryStatus
       THEN [st1 EXCEPT !.deliveryStatus[message.id].error = "Network timeout",
                        !.deliveryStatus[message.id].retries = message.attempts]
       ELSE st1

\* the catch block of processMessage (failure path)
OnSendRejected(st, userId, idx, t, jitter) ==
  LET message == st.messages[userId][idx]
      st1 == [st EXCEPT
                !.messages[userId][idx].nextRetryTime =
                   t + getRetryDelay(message.attempts, jitter),
                !.messages[userId][idx].error = "Network timeout"]
  IN IF message.id \in DOMAIN st1.deliveryStatus
       THEN [st1 EXCEPT !.deliveryStatus[message.id].error = "Network timeout",
                        !.deliveryStatus[message.id].retries = message.attempts]
       ELSE st1

NoDrain == [active |-> FALSE, users |-> <<>>, uidx |-> 0, midx |-> 0,
            phase |-> "idle"]

(***************************************************************************)
(* processPendingMessages from its current position to its next await (or  *)
(* to its end).  w is [state, localStorage, inflight, drain].  The loop     *)
(* looks at the live array of the user: a message pushed while the drain   *)
(* waits is seen when the loop gets to it.                                 *)
(***************************************************************************)
RECURSIVE DrainRun(_, _)
DrainRun(w, t) ==
  LET d == w.drain IN
  IF d.uidx > Len(d.users) THEN
    \* lastSyncTime = Date.now(); saveToStorage(); finally syncInProgress = false
    LET st1 == [w.state EXCEPT !.lastSyncTime = t]
    IN [state |-> [st1 EXCEPT !.syncInProgress = FALSE],
        localStorage |-> saveToStorage(st1),
        inflight |-> w.inflight, drain |-> NoDrain]
  ELSE
    LET uid == d.users[d.uidx]
        list == UserMessages(w.state, uid)
    IN
    IF d.midx > Len(list) THEN
      DrainRun([w EXCEPT !.drain.uidx = @ + 1, !.drain.midx = 1], t)
    ELSE IF list[d.midx].status \in {"pending", "sending"} THEN
      LET r == ProcessMessageSync(w.state, w.localStorage, uid, list[d.midx].id, t)
      IN [state |-> r.state, localStorage |-> r.localStorage,
          inflight |-> IF r.started
                         THEN AddAttempt(w.inflight, Attempt(uid, list[d.midx].id, "drain"))
                         ELSE w.inflight,
          drain |-> [d EXCEPT !.phase = IF r.started THEN "send" ELSE "delay"]]
    ELSE
      DrainRun([w EXCEPT !.drain.midx = @ + 1], t)

\* processPendingMessages(userId?) from its call to its first await
ProcessPendingSync(w, sel, t) ==
  IF w.state.syncInProgress THEN w
  ELSE IF ~w.state.isOnline THEN w
  ELSE
    LET users == IF sel = "all"
                   THEN KeysInOrder(w.state, DOMAIN w.state.messages)
                   ELSE <<sel>>
    IN DrainRun([w EXCEPT !.state.syncInProgress = TRUE,
                          !.drain = [active |-> TRUE, users |-> users,
                                     uidx |-> 1, midx |-> 1, phase |-> "scan"]], t)

World == [state |-> state, localStorage |-> localStorage,
          inflight |-> inflight, drain |-> drain]

SetWorld(w) ==
  /\ state' = w.state
  /\ localStorage' = w.localStorage
  /\ inflight' = w.inflight
  /\ drain' = w.drain

----------------------------------------------------------------------------
(***************************************************************************)
(* Offline queue: operations.                                              *)
(***************************************************************************)

QueueInit ==
  /\ state = [messages |-> <<>>, deliveryStatus |-> <<>>, isOnline |-> TRUE,
              syncInProgress |-> FALSE, lastSyncTime |-> 0]
  /\ localStorage = NoItem
  /\ inflight = EmptyBag
  /\ drain = NoDrain
  /\ nextId = 1
  /\ now = 0
  /\ failures = <<>>

\* queueMessage(userId, ...), for the first so many messages of a behaviour
QueueMessageWithin(userId, limit) ==
  /\ nextId <= limit
  /\ LET message == NewMessage(nextId, userId, now)
         st1 == [state EXCEPT
                   !.messages = IF userId \in DOMAIN @
                                  THEN [@ EXCEPT ![userId] = Append(@, message)]
                                  ELSE @ @@ (userId :> <<message>>),
                   !.deliveryStatus = @ @@ (message.id :>
                       [messageId |-> message.id, status |-> "pending",
                        retries |-> 0, error |-> Undefined])]
         ls1 == saveToStorage(st1)
         r == IF st1.isOnline
                THEN ProcessMessageSync(st1, ls1, userId, message.id, now)
                ELSE [state |-> st1, localStorage |-> ls1,
                      started |-> FALSE, result |-> FALSE]
     IN /\ r.started => BagCardinality(inflight) < MaxInFlight
        /\ state' = r.state
        /\ localStorage' = r.localStorage
        /\ inflight' = IF r.started
                         THEN AddAttempt(inflight, Attempt(userId, message.id, "call"))
                         ELSE inflight
  /\ nextId' = nextId + 1
  /\ UNCHANGED <<drain, now>>
  /\ failures' = [m \in DOMAIN failures \cup {nextId} |-> IF m = nextId THEN 0 ELSE failures[m]]
  /\ UNCHANGED <<sessionVars, deviceVars>>

\* queueMessage(userId, ...)
QueueMessage(userId) == QueueMessageWithin(userId, MaxMessages)

\* processMessage(userId, messageId) called directly
ProcessMessage(userId, messageId) ==
  /\ LET r == ProcessMessageSync(state, localStorage, userId, messageId, now)
     IN /\ r.started => BagCardinality(inflight) < MaxInFlight
        /\ state' = r.state
        /\ localStorage' = r.localStorage
        /\ inflight' = IF r.started
                         THEN AddAttempt(inflight, Attempt(userId, messageId, "call"))
                         ELSE inflight
  /\ UNCHANGED <<drain, nextId, now>>
  /\ UNCHANGED failures
  /\ UNCHANGED <<sessionVars, deviceVars>>

\* the transport timer of one in-flight attempt fires, and processMessage
\* runs to its end; a drain that awaited the attempt goes on to its 100 ms pause
AttemptComplete(a, draw, jitter) ==
  /\ BagIn(a, inflight)
  /\ a.userId \in DOMAIN state.messages
  /\ LET idx == FindIndex(state.messages[a.userId], a.messageId)
         message == state.messages[a.userId][idx]
         st1 == IF TransportRejects(message, draw)
                  THEN OnSendRejected(state, a.userId, idx, now, jitter)
                  ELSE OnSendResolved(state, a.userId, idx)
     IN /\ idx # 0
        /\ state' = st1
        /\ localStorage' = saveToStorage(st1)
  /\ inflight' = RemoveAttempt(inflight, a)
  /\ drain' = IF a.owner = "drain" THEN [drain EXCEPT !.phase = "delay"] ELSE drain
  /\ UNCHANGED <<nextId, now>>
  /\ failures' = IF TransportRejects(
                       state.messages[a.userId][FindIndex(state.messages[a.userId], a.messageId)],
                       draw)
                  THEN [failures EXCEPT ![a.messageId] = @ + 1]
                  ELSE failures
  /\ UNCHANGED <<sessionVars, deviceVars>>

\* the 100 ms pause of processPendingMessages ends and its loop goes on
DrainResume ==
  /\ drain.active /\ drain.phase = "delay"
  /\ SetWorld(DrainRun([World EXCEPT !.drain.midx = @ + 1, !.drain.phase = "scan"], now))
  /\ UNCHANGED <<nextId, now>>
  /\ UNCHANGED failures
  /\ UNCHANGED <<sessionVars, deviceVars>>

\* processPendingMessages(userId?) called directly
ProcessPendingMessages(sel) ==
  /\ LET w == ProcessPendingSync(World, sel, now)
     IN /\ BagCardinality(w.inflight) <= MaxInFlight
        /\ SetWorld(w)
  /\ UNCHANGED <<nextId, now>>
  /\ UNCHANGED failures
  /\ UNCHANGED <<sessionVars, deviceVars>>

\* the "online" listener of initialize
GoOnline ==
  /\ ~state.isOnline
  /\ LET w == ProcessPendingSync([World EXCEPT !.state.isOnline = TRUE], "all", now)
     IN /\ BagCardinality(w.inflight) <= MaxInFlight
        /\ SetWorld(w)
  /\ UNCHANGED <<nextId, now>>
  /\ UNCHANGED failures
  /\ UNCHANGED <<sessionVars, deviceVars>>

\* the "offline" listener of initialize
GoOffline ==
  /\ state.isOnline
  /\ state' = [state EXCEPT !.isOnline = FALSE]
  /\ UNCHANGED <<localStorage, inflight, drain, nextId, now>>
  /\ UNCHANGED failures
  /\ UNCHANGED <<sessionVars, deviceVars>>

\* markDelivered(messageId)
MarkDelivered_Off(messageId) ==
  /\ IF OwnerOf(state, messageId) = {} THEN UNCHANGED <<state, localStorage>>
     ELSE LET userId == CHOOSE u \in OwnerOf(state, messageId) : TRUE
              st1 == [state EXCEPT
                        !.messages = [u \in DOMAIN @ \ {userId} |-> @[u]]]
              st2 == IF messageId \in DOMAIN st1.deliveryStatus
                       THEN [st1 EXCEPT !.deliveryStatus[messageId].status = "delivered"]
                       ELSE st1
          IN /\ state' = st2
             /\ localStorage' = saveToStorage(st2)
  /\ UNCHANGED <<inflight, drain, nextId, now>>
  /\ UNCHANGED failures
  /\ UNCHANGED <<sessionVars, deviceVars>>

MarkDelivered(messageId) ==
  /\ IF OwnerOf(state, messageId) = {} THEN UNCHANGED <<state, localStorage>>
     ELSE LET userId == CHOOSE u \in OwnerOf(state, messageId) : TRUE
              idx == FindIndex(state.messages[userId], messageId)
              st1 == [state EXCEPT !.messages[userId][idx].status = "delivered"]
              st2 == IF messageId \in DOMAIN st1.deliveryStatus
                       THEN [st1 EXCEPT !.deliveryStatus[messageId].status = "delivered"]
                       ELSE st1
          IN /\ state' = st2
             /\ localStorage' = saveToStorage(st2)
  /\ UNCHANGED <<inflight, drain, nextId, now>>
  /\ UNCHANGED failures
  /\ UNCHANGED <<sessionVars, deviceVars>>

\* retryMessage(messageId)
RetryMessage_Off(messageId) ==
  /\ IF OwnerOf(state, messageId) = {} THEN UNCHANGED <<state, localStorage, inflight>>
     ELSE LET userId == CHOOSE u \in OwnerOf(state, messageId) : TRUE
              idx == FindIndex(state.messages[userId], messageId)
              st1 == [state EXCEPT !.messages[userId][idx].status = "pending",
                                   !.messages[userId][idx].nextRetryTime = now,
                                   !.messages[userId][idx].error = Undefined]
              r == ProcessMessageSync(st1, localStorage, userId, messageId, now)
          IN /\ r.started => BagCardinality(inflight) < MaxInFlight
             /\ state' = r.state
             /\ localStorage' = r.localStorage
             /\ inflight' = IF r.started
                              THEN AddAttempt(inflight, Attempt(userId, messageId, "call"))
                              ELSE inflight
  /\ UNCHANGED <<drain, nextId, now>>
  /\ failures' = IF messageId \in DOMAIN failures
                  THEN [failures EXCEPT ![messageId] = 0]
                  ELSE failures
  /\ UNCHANGED <<sessionVars, deviceVars>>

RetryMessage(messageId) ==
  /\ IF OwnerOf(state, messageId) = {} THEN UNCHANGED <<state, localStorage, inflight>>
     ELSE LET userId == CHOOSE u \in OwnerOf(state, messageId) : TRUE
              idx == FindIndex(state.messages[userId], messageId)
              st1 == [state EXCEPT !.messages[userId][idx].status = "pending",
                                   !.messages[userId][idx].nextRetryTime = now,
                                   !.messages[userId][idx].attempts = 0,
                                   !.messages[userId][idx].error = Undefined]
              r == ProcessMessageSync(st1, localStorage, userId, messageId, now)
          IN /\ r.started => BagCardinality(inflight) < MaxInFlight
             /\ state' = r.state
             /\ localStorage' = r.localStorage
             /\ inflight' = IF r.started
                              THEN AddAttempt(inflight, Attempt(userId, messageId, "call"))
                              ELSE inflight
  /\ UNCHANGED <<drain, nextId, now>>
  /\ failures' = IF messageId \in DOMAIN failures
                  THEN [failures EXCEPT ![messageId] = 0]
                  ELSE failures
  /\ UNCHANGED <<sessionVars, deviceVars>>

\* the retry times that lie ahead
DueTimes ==
  UNION {{state.messages[u][i].nextRetryTime : i \in 1..Len(state.messages[u])} :
           u \in DOMAIN state.messages}

\* time passes, up to the next retry time
Tick(t, limit) ==
  /\ t > now /\ t <= limit
  /\ now' = t
  /\ UNCHANGED queueVars
  /\ UNCHANGED <<sessionVars, deviceVars>>

MessageIds == 1..MaxMessages

QueueNext ==
  \/ \E u \in Users : QueueMessage(u)
  \/ \E u \in Users, m \in MessageIds : ProcessMessage(u, m)
  \/ \E a \in BagToSet(inflight), draw \in BOOLEAN, j \in JitterChoices :
       AttemptComplete(a, draw, j)
  \/ DrainResume
  \/ \E sel \in Users \cup {"all"} : ProcessPendingMessages(sel)
  \/ GoOnline
  \/ GoOffline
  \/ \E m \in MessageIds : MarkDelivered(m)
  \/ \E m \in MessageIds : RetryMessage(m)
  \/ \E t \in DueTimes : Tick(t, MaxTime)

Init == QueueInit /\ SessionInit /\ DeviceInit

SpecQueue == Init /\ [][QueueNext]_vars

----------------------------------------------------------------------------
(***************************************************************************)
(* Offline queue: properties.                                              *)
(***************************************************************************)

AllMessages(st) ==
  UNION {{st.messages[u][i] : i \in 1..Len(st.messages[u])} : u \in DOMAIN st.messages}

HasStatus(st, messageId, status) ==
  \E m \in AllMessages(st) : m.id = messageId /\ m.status = status

\* C8: in every reachable state of the offline queue every queued message has
\* attempts <= maxRetries
C8_AttemptsWithinMaxRetries ==
  \A m \in AllMessages(state) : m.attempts <= m.maxRetries

\* the retry budget was used up and a further processMessage refused to send
C8_Witness ==
  \E m \in AllMessages(state) : m.attempts = m.maxRetries /\ m.status = "failed"

\* C9: a message with status failed keeps that status over every step that is
\* not a retryMessage (or a markDelivered) for it: no processMessage call,
\* drain or completion of an in-flight send attempt moves it out of failed
C9_FailedUntilRetry ==
  [][\A m \in MessageIds :
       (HasStatus(state, m, "failed") /\ ~RetryMessage(m) /\ ~MarkDelivered(m))
         => HasStatus(state', m, "failed")]_vars

\* C10: a message with status delivered has status delivered in every later
\* state
C10_DeliveredIsFinal ==
  [][\A m \in MessageIds :
       HasStatus(state, m, "delivered") => HasStatus(state', m, "delivered")]_vars

----------------------------------------------------------------------------
(***************************************************************************)
(* Strings and the simulated primitives (lib/crypto).  A string built at   *)
(* run time is the sequence of the pieces it was put together from.        *)
(***************************************************************************)

\* Buffer.from(s).toString("base64")
Base64(s) == <<"base64(">> \o s \o <<")">>

\* Buffer.from(s, "base64").toString()
FromBase64(s) ==
  IF Len(s) >= 2 /\ s[1] = "base64(" /\ s[Len(s)] = ")"
    THEN SubSeq(s, 2, Len(s) - 1)
    ELSE <<>>

\* Buffer.from(Math.random().toString()).toString("base64")
RandomString(draw) == Base64(<<draw>>)

\* cryptoUtils.generateDeviceKeys: the keys a device drew when it registered
generateDeviceKeys(deviceId) ==
  [deviceId |-> deviceId,
   signingKeys |-> [publicKey |-> RandomString("signing-public/" \o deviceId),
                    secretKey |-> RandomString("signing-secret/" \o deviceId)],
   agreementKeys |-> [publicKey |-> RandomString("agreement-public/" \o deviceId),
                      secretKey |-> RandomString("agreement-secret/" \o deviceId)],
   preKeys |-> [i \in 1..PreKeyCount |->
                  [keyId |-> i - 1,
                   publicKey |-> RandomString("pre-key/" \o deviceId \o "/" \o ToString(i - 1)),
                   signature |-> RandomString("pre-key-signature/" \o deviceId \o "/" \o ToString(i - 1)),
                   createdAt |-> 0]],
   oneTimeKeys |-> [i \in 1..OneTimeKeyCount |->
                      [keyId |-> i - 1,
                       publicKey |-> RandomString("one-time-key/" \o deviceId \o "/" \o ToString(i - 1))]]]

\* cryptoUtils.deriveSharedSecret
deriveSharedSecret(theirSignedPreKey, theirOneTimeKey, ourAgreementSecretKey, draw1, draw2) ==
  [sharedSecret |-> Base64(theirSignedPreKey \o theirOneTimeKey \o ourAgreementSecretKey),
   headerSecret |-> RandomString(draw1),
   chainKey |-> RandomString(draw2),
   messageCounter |-> 0]

\* cryptoUtils.encryptMessage
cryptoEncryptMessage(plaintext, sessionKey, senderDeviceId, recipientDeviceId, t, draw) ==
  [ciphertext |-> Base64(plaintext),
   nonce |-> RandomString(draw),
   senderDeviceId |-> senderDeviceId,
   recipientDeviceId |-> recipientDeviceId,
   timestamp |-> t,
   messageCounter |-> sessionKey.messageCounter + 1,
   headerSecret |-> sessionKey.headerSecret]

\* cryptoUtils.decryptMessage
cryptoDecryptMessage(message, sessionKey) == FromBase64(message.ciphertext)

\* cryptoUtils.evolveChainKey
evolveChainKey(chainKey, t) == Base64(chainKey \o <<":evolved:", ToString(t)>>)

\* how many times a chain key was evolved
Evolutions(chainKey) == (Len(chainKey) - 3) \div 4

\* cryptoUtils.verifySignature
verifySignature(message, signature, publicKey) == TRUE

\* cryptoUtils.signData
signData(data, secretKey) == Base64(data \o <<":signed:">> \o secretKey)

\* JSON.stringify of the payload of prepareMessageForEncryption
JSONstringify(payload) ==
  <<"{\"type\":\"message\",\"content\":", payload.content,
    ",\"timestamp\":", ToString(payload.timestamp), "}">>

\* JSON.parse of a payload; a text that is not one makes it throw
JSONparse(text) ==
  IF /\ Len(text) = 5
     /\ text[1] = "{\"type\":\"message\",\"content\":"
     /\ text[3] = ",\"timestamp\":"
     /\ text[5] = "}"
    THEN [throws |-> FALSE, content |-> text[2], timestamp |-> text[4]]
    ELSE [throws |-> TRUE]

----------------------------------------------------------------------------
(***************************************************************************)
(* Sessions and the X3DH handshake (lib/session.ts).                       *)
(***************************************************************************)

\* the user and the device a runtime acts for
EndpointOf(p) ==
  IF p = "p1" THEN [userId |-> "alice", deviceId |-> "d1"]
              ELSE [userId |-> "bob", deviceId |-> "d2"]

PeerOf(p) == IF p = "p1" THEN "p2" ELSE "p1"

\* the order of Array.prototype.sort on the identifiers in use
SortOrder == <<"alice", "bob", "d1", "d2">>

Position(x) == CHOOSE i \in 1..Len(SortOrder) : SortOrder[i] = x

\* [a, b].sort()
SortPair(a, b) == IF Position(b) < Position(a) THEN <<b, a>> ELSE <<a, b>>

SessionIdOf_Off(userId1, deviceId1, userId2, deviceId2) ==
  <<"session:", userId1, ":", userId2, ":", deviceId1, ":", deviceId2>>

\* `session:${[userId1, userId2].sort().join(":")}:${[deviceId1, deviceId2].sort().join(":")}`
SessionIdOf(userId1, deviceId1, userId2, deviceId2) ==
  LET us == SortPair(userId1, userId2)
      ds == SortPair(deviceId1, deviceId2)
  IN <<"session:", us[1], ":", us[2], ":", ds[1], ":", ds[2]>>

\* the session id a runtime uses for the conversation with its peer
SessionIdAt(p) ==
  SessionIdOf(EndpointOf(p).userId, EndpointOf(p).deviceId,
              EndpointOf(PeerOf(p)).userId, EndpointOf(PeerOf(p)).deviceId)

\* sessionManager.generateX3DHBundle
generateX3DHBundle(deviceKeys, t) ==
  [identityKey |-> deviceKeys.signingKeys.publicKey,
   signedPreKey |-> deviceKeys.preKeys[1].publicKey,
   signedPreKeySignature |-> deviceKeys.preKeys[1].signature,
   oneTimePreKeys |-> [i \in 1..Len(deviceKeys.oneTimeKeys) |-> deviceKeys.oneTimeKeys[i].publicKey],
   timestamp |-> t]

\* the session key completeHandshake derives
X3DHSessionKey(ourDeviceKeys, theirPreKeyBundle, draw1, draw2) ==
  LET dh1 == ourDeviceKeys.signingKeys.publicKey \o <<":">> \o theirPreKeyBundle.identityKey
      dh2 == ourDeviceKeys.agreementKeys.secretKey \o <<":">> \o theirPreKeyBundle.identityKey
      dh3 == ourDeviceKeys.signingKeys.publicKey \o <<":">> \o theirPreKeyBundle.signedPreKey
      dh4 == ourDeviceKeys.agreementKeys.secretKey \o <<":">> \o theirPreKeyBundle.signedPreKey
  IN deriveSharedSecret(dh1 \o <<":">> \o dh2 \o <<":">> \o dh3 \o <<":">> \o dh4,
                        theirPreKeyBundle.oneTimePreKeys[1],
                        ourDeviceKeys.agreementKeys.secretKey, draw1, draw2)

\* a SessionState that starts in the state initiated
NewSessionState_Off(userId1, deviceId1, userId2, deviceId2, sessionKey, t) ==
  [sessionId |-> SessionIdOf(userId1, deviceId1, userId2, deviceId2),
   userId1 |-> userId1, userId2 |-> userId2,
   deviceId1 |-> deviceId1, deviceId2 |-> deviceId2,
   sessionKey |-> sessionKey,
   state |-> "initiated",
   x3dhData |-> [sharedSecret |-> sessionKey.sharedSecret, messageCounter |-> 0],
   createdAt |-> t,
   lastUpdated |-> t]

\* the SessionState completeHandshake builds
NewSessionState(userId1, deviceId1, userId2, deviceId2, sessionKey, t) ==
  [sessionId |-> SessionIdOf(userId1, deviceId1, userId2, deviceId2),
   userId1 |-> userId1, userId2 |-> userId2,
   deviceId1 |-> deviceId1, deviceId2 |-> deviceId2,
   sessionKey |-> sessionKey,
   state |-> "established",
   x3dhData |-> [sharedSecret |-> sessionKey.sharedSecret, messageCounter |-> 0],
   createdAt |-> t,
   lastUpdated |-> t]

\* the values of a Map
Values(map) == {map[k] : k \in DOMAIN map}

\* map.set(key, value)
MapSet(map, key, value) ==
  [k \in DOMAIN map \cup {key} |-> IF k = key THEN value ELSE map[k]]

\* map.delete(key)
MapDelete(map, key) == [k \in DOMAIN map \ {key} |-> map[k]]

\* the objects of runtime p that the store or a call in progress refers to
Referenced(st, ts, p) ==
  Values(st[p]) \cup {ts[i].obj : i \in {j \in DOMAIN ts : ts[j].kind # "idle" /\ ts[j].proc = p}}

\* objects nothing refers to any more are dropped
Collect(hp, st, ts) ==
  [p \in Procs |-> [i \in 1..HeapSize |->
     IF i \in Referenced(st, ts, p) THEN hp[p][i] ELSE NoObj]]

\* where a new object of runtime p goes
FreeObj(p) == CHOOSE i \in 1..HeapSize :
                /\ heap[p][i].state = "none"
                /\ \A j \in 1..(i - 1) : heap[p][j].state # "none"

\* sessionManager.getOrCreateSession: the stored object, or 0 for null
getOrCreateSession(p, userId1, deviceId1, userId2, deviceId2) ==
  LET sessionId == SessionIdOf(userId1, deviceId1, userId2, deviceId2)
  IN IF sessionId \in DOMAIN sessionStore[p] THEN sessionStore[p][sessionId] ELSE 0

\* the session a runtime resolves for the conversation with its peer
SessionAt(p) ==
  getOrCreateSession(p, EndpointOf(p).userId, EndpointOf(p).deviceId,
                     EndpointOf(PeerOf(p)).userId, EndpointOf(PeerOf(p)).deviceId)

\* the bundle a device publishes
GenuineBundle(p) == generateX3DHBundle(generateDeviceKeys(EndpointOf(p).deviceId), now)

\* the same bundle with a signature the device never made
ForgedSignature(bundle) ==
  [bundle EXCEPT !.signedPreKeySignature = RandomString("forged")]

\* the bundles a caller may hand to completeHandshake for its peer
BundlesFor(p) == {GenuineBundle(PeerOf(p)), ForgedSignature(GenuineBundle(PeerOf(p)))}

\* sessionManager.completeHandshake.  The part before its await reads only
\* its arguments, so the call is one step, taken when it resumes.
CompleteHandshake(p, userId1, deviceId1, userId2, deviceId2, ourDeviceKeys, theirPreKeyBundle, isInitiator, draw1, draw2) ==
  /\ BagCardinality(completed) < MaxHandshakes
  /\ LET sessionKey == X3DHSessionKey(ourDeviceKeys, theirPreKeyBundle, draw1, draw2)
         sessionState == NewSessionState(userId1, deviceId1, userId2, deviceId2,
                                         sessionKey, now)
         o == FreeObj(p)
         st1 == [sessionStore EXCEPT ![p] = MapSet(@, sessionState.sessionId, o)]
     IN /\ sessionStore' = st1
        /\ heap' = Collect([heap EXCEPT ![p][o] = sessionState], st1, tasks)
  /\ completed' = completed (+)
       SetToBag({[proc |-> p, oneTimePreKey |-> theirPreKeyBundle.oneTimePreKeys[1]]})
  /\ UNCHANGED <<tasks, network, accepted, handshakes>>
  /\ UNCHANGED <<queueVars, now, outVars, deviceVars>>

\* completeHandshake called by runtime p for the conversation with its peer
Handshake(p, theirPreKeyBundle, isInitiator, draw1, draw2) ==
  CompleteHandshake(p, EndpointOf(p).userId, EndpointOf(p).deviceId,
                    EndpointOf(PeerOf(p)).userId, EndpointOf(PeerOf(p)).deviceId,
                    generateDeviceKeys(EndpointOf(p).deviceId),
                    theirPreKeyBundle, isInitiator, draw1, draw2)

\* sessionManager.initiateHandshake
InitiateHandshake(p, draw) ==
  /\ Cardinality(handshakes) < MaxHandshakeMessages
  /\ LET me == EndpointOf(p)
         deviceKeys == generateDeviceKeys(me.deviceId)
     IN handshakes' = handshakes \cup
          {[messageType |-> "identity-key",
            senderId |-> me.userId,
            senderDeviceId |-> me.deviceId,
            recipientId |-> EndpointOf(PeerOf(p)).userId,
            payload |-> [identityKey |-> deviceKeys.signingKeys.publicKey,
                         ephemeralKey |-> RandomString(draw)],
            timestamp |-> now,
            signature |-> signData(<<me.userId, ":", me.deviceId, ":",
                                     EndpointOf(PeerOf(p)).userId>>,
                                   deviceKeys.signingKeys.secretKey)]}
  /\ UNCHANGED <<sessionStore, heap, tasks, network, accepted, completed>>
  /\ UNCHANGED <<queueVars, now, outVars, deviceVars>>

\* sessionManager.respondToHandshake
RespondToHandshake(p, initiationMessage) ==
  /\ Cardinality(handshakes) < MaxHandshakeMessages
  /\ initiationMessage.messageType = "identity-key"
  /\ initiationMessage.recipientId = EndpointOf(p).userId
  /\ LET me == EndpointOf(p)
         deviceKeys == generateDeviceKeys(me.deviceId)
         bundle == generateX3DHBundle(deviceKeys, now)
     IN handshakes' = handshakes \cup
          {[messageType |-> "prekey-bundle",
            senderId |-> me.userId,
            senderDeviceId |-> me.deviceId,
            recipientId |-> initiationMessage.senderId,
            payload |-> [identityKey |-> bundle.identityKey,
                         signedPreKey |-> bundle.signedPreKey,
                         signedPreKeySignature |-> bundle.signedPreKeySignature,
                         oneTimePreKey |-> bundle.oneTimePreKeys[1]],
            timestamp |-> now,
            signature |-> signData(<<me.userId, ":", me.deviceId, ":response">>,
                                   deviceKeys.signingKeys.secretKey)]}
  /\ UNCHANGED <<sessionStore, heap, tasks, network, accepted, completed>>
  /\ UNCHANGED <<queueVars, now, outVars, deviceVars>>

\* sessionManager.clearSession
ClearSession(p, sessionId) ==
  /\ LET st1 == [sessionStore EXCEPT ![p] = MapDelete(@, sessionId)]
     IN /\ sessionStore' = st1
        /\ heap' = Collect(heap, st1, tasks)
  /\ UNCHANGED <<tasks, network, accepted, handshakes, completed>>
  /\ UNCHANGED <<queueVars, now, outVars, deviceVars>>

----------------------------------------------------------------------------
(***************************************************************************)
(* The message pipeline (lib/message-pipeline) and rekeySession.  A call   *)
(* in progress occupies a slot of tasks from its first step until its      *)
(* caller has taken the result; it holds a reference to the SessionState   *)
(* object it was given.                                                    *)
(***************************************************************************)

Contents == {"hi", "yo"}

FreeSlots == {i \in 1..MaxTasks : tasks[i].kind = "idle"}

\* the slot a new call takes
NewSlot == CHOOSE i \in FreeSlots : \A j \in FreeSlots : i <= j

Max(a, b) == IF a >= b THEN a ELSE b

\* messagePipeline.prepareMessageForEncryption
prepareMessageForEncryption(content, t) ==
  JSONstringify([content |-> content, timestamp |-> t])

\* messagePipeline.encryptMessage, up to the await of prepareMessageForEncryption;
\* the session is the one getOrCreateSession resolves
EncryptMessage(p, content) ==
  /\ FreeSlots # {}
  /\ SessionAt(p) # 0
  /\ LET o == SessionAt(p)
     IN /\ heap[p][o].sessionKey.messageCounter < MaxCounter
        /\ Evolutions(heap[p][o].sessionKey.chainKey) < MaxEvolutions
        /\ Cardinality(network) + Cardinality({j \in 1..MaxTasks : tasks[j].kind = "encrypt"})
             < MaxEnvelopes
        /\ tasks' = [tasks EXCEPT ![NewSlot] =
             [kind |-> "encrypt", proc |-> p, obj |-> o, pc |-> "prepared",
              content |-> content,
              payload |-> prepareMessageForEncryption(content, now)]]
  /\ UNCHANGED <<sessionStore, heap, network, accepted, handshakes, completed>>
  /\ UNCHANGED <<queueVars, now, outVars, deviceVars>>

\* encryptMessage: cryptoUtils.evolveChainKey(session.sessionKey.chainKey), awaited
EncryptEvolve(i) ==
  /\ tasks[i].kind = "encrypt" /\ tasks[i].pc = "prepared"
  /\ LET chainKey == heap[tasks[i].proc][tasks[i].obj].sessionKey.chainKey
     IN tasks' = [tasks EXCEPT ![i] =
          [kind |-> "encrypt", proc |-> tasks[i].proc, obj |-> tasks[i].obj,
           pc |-> "evolved",
           content |-> tasks[i].content,
           payload |-> tasks[i].payload,
           chainKeyRead |-> chainKey,
           newChainKey |-> evolveChainKey(chainKey, now)]]
  /\ UNCHANGED <<sessionStore, heap, network, accepted, handshakes, completed>>
  /\ UNCHANGED <<queueVars, now, outVars, deviceVars>>

\* encryptMessage: the chain key is assigned and cryptoUtils.encryptMessage
\* builds the envelope, awaited
EncryptSeal(i, draw) ==
  /\ tasks[i].kind = "encrypt" /\ tasks[i].pc = "evolved"
  /\ LET p == tasks[i].proc
         o == tasks[i].obj
         hp1 == [heap EXCEPT ![p][o].sessionKey.chainKey = tasks[i].newChainKey]
     IN /\ heap' = hp1
        /\ tasks' = [tasks EXCEPT ![i] =
             [kind |-> "encrypt", proc |-> p, obj |-> o, pc |-> "sealed",
              content |-> tasks[i].content,
              chainKeyRead |-> tasks[i].chainKeyRead,
              encrypted |-> cryptoEncryptMessage(tasks[i].payload,
                              hp1[p][o].sessionKey,
                              EndpointOf(p).deviceId,
                              EndpointOf(PeerOf(p)).deviceId, now, draw)]]
  /\ UNCHANGED <<sessionStore, network, accepted, handshakes, completed>>
  /\ UNCHANGED <<queueVars, now, outVars, deviceVars>>

\* encryptMessage: session.sessionKey.messageCounter += 1; return encrypted.
\* The caller sends the envelope.
EncryptReturn(i) ==
  /\ tasks[i].kind = "encrypt" /\ tasks[i].pc = "sealed"
  /\ LET p == tasks[i].proc
         o == tasks[i].obj
         ts1 == [tasks EXCEPT ![i] = Idle]
     IN /\ tasks' = ts1
        /\ heap' = Collect([heap EXCEPT ![p][o].sessionKey.messageCounter = @ + 1],
                           sessionStore, ts1)
  /\ network' = network \cup {[envelope |-> tasks[i].encrypted,
                               content |-> tasks[i].content,
                               sender |-> tasks[i].proc]}
  /\ UNCHANGED <<sessionStore, accepted, handshakes, completed>>
  /\ UNCHANGED <<queueVars, now, outVars, deviceVars>>

\* the envelopes runtime p can be handed: those between its device and its peer's
EnvelopesFor(p) ==
  {n \in network :
     {n.envelope.senderDeviceId, n.envelope.recipientDeviceId}
       = {EndpointOf(p).deviceId, EndpointOf(PeerOf(p)).deviceId}}

\* decryptMessage: the replay test on the message counter
ReplayDetected(encrypted, session) ==
  encrypted.messageCounter <= session.sessionKey.messageCounter

\* what decryptMessage returns for an envelope when it has decoded it
DecryptedContent(encrypted, session) ==
  LET message == JSONparse(cryptoDecryptMessage(encrypted, session.sessionKey))
  IN IF message.throws THEN [null |-> TRUE]
     ELSE [null |-> FALSE, content |-> message.content,
           originalTimestamp |-> message.timestamp]

\* what a decryptMessage call of runtime p returns for an envelope, on the
\* session getOrCreateSession resolves and when no other call runs meanwhile
DecryptResult(p, encrypted) ==
  IF ReplayDetected(encrypted, heap[p][SessionAt(p)])
    THEN [null |-> TRUE]
    ELSE DecryptedContent(encrypted, heap[p][SessionAt(p)])

\* messagePipeline.decryptMessage, up to the await of cryptoUtils.decryptMessage
\* or to the return of null; the session is the one getOrCreateSession resolves
DecryptMessage(p, n) ==
  /\ SessionAt(p) # 0
  /\ n \in EnvelopesFor(p)
  /\ LET o == SessionAt(p)
     IN IF ReplayDetected(n.envelope, heap[p][o])
          THEN UNCHANGED tasks
          ELSE /\ FreeSlots # {}
               /\ tasks' = [tasks EXCEPT ![NewSlot] =
                    [kind |-> "decrypt", proc |-> p, obj |-> o, pc |-> "decrypted",
                     encrypted |-> n.envelope]]
  /\ UNCHANGED <<sessionStore, heap, network, accepted, handshakes, completed>>
  /\ UNCHANGED <<queueVars, now, outVars, deviceVars>>

\* a decryptMessage that assigns the counter and lastUpdated before it
\* parses the text
DecryptReturn_Off(i) ==
  /\ tasks[i].kind = "decrypt" /\ tasks[i].pc = "decrypted"
  /\ LET p == tasks[i].proc
         o == tasks[i].obj
         encrypted == tasks[i].encrypted
         ts1 == [tasks EXCEPT ![i] = Idle]
         hp1 == [heap EXCEPT
                        ![p][o].sessionKey.messageCounter = encrypted.messageCounter,
                        ![p][o].lastUpdated = now]
     IN /\ tasks' = ts1
        /\ heap' = Collect(hp1, sessionStore, ts1)
        /\ accepted' = IF DecryptedContent(encrypted, heap[p][o]).null THEN accepted
                       ELSE [accepted EXCEPT ![p] = Max(@, encrypted.messageCounter)]
  /\ UNCHANGED <<sessionStore, network, handshakes, completed>>
  /\ UNCHANGED <<queueVars, now, outVars, deviceVars>>

\* decryptMessage after its await: JSON.parse, the counter and lastUpdated
\* are assigned, the content is returned; a throw makes it return null
DecryptReturn(i) ==
  /\ tasks[i].kind = "decrypt" /\ tasks[i].pc = "decrypted"
  /\ LET p == tasks[i].proc
         o == tasks[i].obj
         encrypted == tasks[i].encrypted
         ts1 == [tasks EXCEPT ![i] = Idle]
         hp1 == IF DecryptedContent(encrypted, heap[p][o]).null THEN heap
                ELSE [heap EXCEPT
                        ![p][o].sessionKey.messageCounter = encrypted.messageCounter,
                        ![p][o].lastUpdated = now]
     IN /\ tasks' = ts1
        /\ heap' = Collect(hp1, sessionStore, ts1)
        /\ accepted' = IF DecryptedContent(encrypted, heap[p][o]).null THEN accepted
                       ELSE [accepted EXCEPT ![p] = Max(@, encrypted.messageCounter)]
  /\ UNCHANGED <<sessionStore, network, handshakes, completed>>
  /\ UNCHANGED <<queueVars, now, outVars, deviceVars>>

\* sessionManager.rekeySession, up to the await of cryptoUtils.evolveChainKey
RekeySession(p, sessionId) ==
  /\ FreeSlots # {}
  /\ sessionId \in DOMAIN sessionStore[p]
  /\ LET o == sessionStore[p][sessionId]
         chainKey == heap[p][o].sessionKey.chainKey
     IN /\ Evolutions(chainKey) < MaxEvolutions
        /\ tasks' = [tasks EXCEPT ![NewSlot] =
             [kind |-> "rekey", proc |-> p, obj |-> o, pc |-> "evolved",
              sessionId |-> sessionId,
              newChainKey |-> evolveChainKey(chainKey, now)]]
  /\ UNCHANGED <<sessionStore, heap, network, accepted, handshakes, completed>>
  /\ UNCHANGED <<queueVars, now, outVars, deviceVars>>

RekeyReturn_Off(i) ==
  /\ tasks[i].kind = "rekey" /\ tasks[i].pc = "evolved"
  /\ LET p == tasks[i].proc
         o == tasks[i].obj
         ts1 == [tasks EXCEPT ![i] = Idle]
         st1 == [sessionStore EXCEPT ![p] = MapSet(@, tasks[i].sessionId, o)]
     IN /\ tasks' = ts1
        /\ sessionStore' = st1
        /\ heap' = Collect([heap EXCEPT ![p][o].sessionKey.chainKey = tasks[i].newChainKey,
                                        ![p][o].state = "rekeying",
                                        ![p][o].sessionKey.messageCounter = 0,
                                        ![p][o].lastUpdated = now],
                           st1, ts1)
  /\ UNCHANGED <<network, accepted, handshakes, completed>>
  /\ UNCHANGED <<queueVars, now, outVars, deviceVars>>

\* rekeySession after its await: the chain key, the state and lastUpdated are
\* assigned and the object is put into the store under its id
RekeyReturn(i) ==
  /\ tasks[i].kind = "rekey" /\ tasks[i].pc = "evolved"
  /\ LET p == tasks[i].proc
         o == tasks[i].obj
         ts1 == [tasks EXCEPT ![i] = Idle]
         st1 == [sessionStore EXCEPT ![p] = MapSet(@, tasks[i].sessionId, o)]
     IN /\ tasks' = ts1
        /\ sessionStore' = st1
        /\ heap' = Collect([heap EXCEPT ![p][o].sessionKey.chainKey = tasks[i].newChainKey,
                                        ![p][o].state = "rekeying",
                                        ![p][o].lastUpdated = now],
                           st1, ts1)
  /\ UNCHANGED <<network, accepted, handshakes, completed>>
  /\ UNCHANGED <<queueVars, now, outVars, deviceVars>>

\* the slots of the calls in progress
InProgress == {i \in 1..MaxTasks : tasks[i].kind # "idle"}

\* two runtimes whose callers await each call before they make the next
SessionNext ==
  \/ /\ InProgress = {}
     /\ \E p \in Procs, isInitiator \in BOOLEAN, draw1, draw2 \in RandomDraws :
          Handshake(p, GenuineBundle(PeerOf(p)), isInitiator, draw1, draw2)
  \/ /\ InProgress = {}
     /\ \E p \in Procs, content \in Contents : EncryptMessage(p, content)
  \/ \E i \in 1..MaxTasks : EncryptEvolve(i)
  \/ \E i \in 1..MaxTasks, draw \in RandomDraws : EncryptSeal(i, draw)
  \/ \E i \in 1..MaxTasks : EncryptReturn(i)
  \/ /\ InProgress = {}
     /\ \E p \in Procs, n \in network : DecryptMessage(p, n)
  \/ \E i \in 1..MaxTasks : DecryptReturn(i)
  \/ /\ InProgress = {}
     /\ \E p \in Procs : RekeySession(p, SessionIdAt(p))
  \/ \E i \in 1..MaxTasks : RekeyReturn(i)

SpecSession == Init /\ [][SessionNext]_vars

\* one sending runtime whose callers do not await: its calls overlap
ConcurrentNext ==
  \/ \E isInitiator \in BOOLEAN, draw1, draw2 \in RandomDraws :
       Handshake("p1", GenuineBundle(PeerOf("p1")), isInitiator, draw1, draw2)
  \/ \E content \in Contents : EncryptMessage("p1", content)
  \/ \E i \in 1..MaxTasks : EncryptEvolve(i)
  \/ \E i \in 1..MaxTasks, draw \in RandomDraws : EncryptSeal(i, draw)
  \/ \E i \in 1..MaxTasks : EncryptReturn(i)
  \/ RekeySession("p1", SessionIdAt("p1"))
  \/ \E i \in 1..MaxTasks : RekeyReturn(i)

SpecConcurrent == Init /\ [][ConcurrentNext]_vars

\* the handshake between two runtimes
HandshakeNext ==
  \/ \E p \in Procs, draw \in RandomDraws : InitiateHandshake(p, draw)
  \/ \E p \in Procs, m \in handshakes : RespondToHandshake(p, m)
  \/ \E p \in Procs : \E b \in BundlesFor(p), isInitiator \in BOOLEAN,
        draw1, draw2 \in RandomDraws : Handshake(p, b, isInitiator, draw1, draw2)
  \/ \E p \in Procs : ClearSession(p, SessionIdAt(p))
  \/ Tick(now + 1, MaxSessionTime)

SpecHandshake == Init /\ [][HandshakeNext]_vars

----------------------------------------------------------------------------
(***************************************************************************)
(* Sessions and pipeline: properties.                                      *)
(***************************************************************************)

\* C1: every envelope a decryptMessage call accepts has a messageCounter
\* above those of all envelopes the runtime accepted before, so an envelope
\* is accepted at most once, whatever encryptMessage, rekeySession and
\* completeHandshake calls come between
C1_AcceptedCountersIncrease ==
  [][\A i \in 1..MaxTasks :
       (/\ DecryptReturn(i)
        /\ ~DecryptedContent(tasks[i].encrypted, heap[tasks[i].proc][tasks[i].obj]).null)
         => tasks[i].encrypted.messageCounter > accepted[tasks[i].proc]]_vars

\* C2: decryptMessage, on the session getOrCreateSession resolves, returns
\* the plaintext of every envelope that encryptMessage produced under that
\* session id and that the runtime has not accepted yet
C2_DecryptReturnsPlaintext ==
  \A p \in Procs : \A n \in EnvelopesFor(p) :
    (SessionAt(p) # 0 /\ n.envelope.messageCounter > accepted[p])
      => /\ ~DecryptResult(p, n.envelope).null
         /\ DecryptResult(p, n.envelope).content = n.content

\* C3: decryptMessage rejects an envelope of the peer exactly when its
\* messageCounter is at most the highest counter the runtime accepted before;
\* what the runtime sent itself plays no part
C3_RejectsExactlyReplays ==
  \A p \in Procs : \A n \in EnvelopesFor(p) :
    (SessionAt(p) # 0 /\ n.sender # p)
      => (ReplayDetected(n.envelope, heap[p][SessionAt(p)])
            <=> n.envelope.messageCounter <= accepted[p])

\* C4: two encryptMessage calls in progress on one session that have both
\* built their envelope gave them different messageCounters and evolved
\* different chain keys
C4_ConcurrentEncryptsDiffer ==
  \A i, j \in 1..MaxTasks :
    (/\ i # j
     /\ tasks[i].kind = "encrypt" /\ tasks[j].kind = "encrypt"
     /\ tasks[i].proc = tasks[j].proc /\ tasks[i].obj = tasks[j].obj
     /\ tasks[i].pc = "sealed" /\ tasks[j].pc = "sealed")
      => /\ tasks[i].encrypted.messageCounter # tasks[j].encrypted.messageCounter
         /\ tasks[i].chainKeyRead # tasks[j].chainKeyRead

\* C5: no runtime completes two handshakes with the same one-time pre-key of
\* its peer: the second attempt fails and creates no session
C5_OneTimePreKeyUsedOnce ==
  \A use \in BagToSet(completed) : CopiesIn(use, completed) <= 1

\* C6: when both runtimes completed the handshake with each other's bundle,
\* their sessions hold the same sharedSecret
C6_SameSharedSecret ==
  (SessionAt("p1") # 0 /\ SessionAt("p2") # 0)
    => heap["p1"][SessionAt("p1")].sessionKey.sharedSecret
         = heap["p2"][SessionAt("p2")].sessionKey.sharedSecret

\* the signature of a bundle is one its owner made for its signed pre-key
SignatureValid(bundle) ==
  \E q \in Procs : \E i \in 1..PreKeyCount :
    LET deviceKeys == generateDeviceKeys(EndpointOf(q).deviceId)
    IN /\ bundle.identityKey = deviceKeys.signingKeys.publicKey
       /\ bundle.signedPreKey = deviceKeys.preKeys[i].publicKey
       /\ bundle.signedPreKeySignature = deviceKeys.preKeys[i].signature

\* C7: a completeHandshake call handed a bundle whose signed pre-key signature
\* is not valid fails and leaves the session store as it was
C7_InvalidSignatureRejected ==
  [][\A p \in Procs : \A b \in BundlesFor(p) :
       \A isInitiator \in BOOLEAN, draw1, draw2 \in RandomDraws :
         (Handshake(p, b, isInitiator, draw1, draw2) /\ ~SignatureValid(b))
           => UNCHANGED <<sessionStore, heap>>]_vars

----------------------------------------------------------------------------
(***************************************************************************)
(* Offline queue: further properties.                                      *)
(***************************************************************************)

\* the send attempts in flight for one message
AttemptsInFlight(messageId) ==
  LET for == {a \in BagToSet(inflight) : a.messageId = messageId}
  IN BagCardinality([a \in for |-> CopiesIn(a, inflight)])

\* C11: at no time are two send attempts in flight for the same message
C11_SingleAttemptInFlight ==
  \A m \in MessageIds : AttemptsInFlight(m) <= 1

\* the queue left to itself: messages are queued, the browser reports online
\* and offline, timers fire and time passes; nobody calls processMessage,
\* processPendingMessages or retryMessage
AutoNext ==
  \/ \E u \in Users : QueueMessage(u)
  \/ \E a \in BagToSet(inflight), draw \in BOOLEAN, j \in JitterChoices :
       AttemptComplete(a, draw, j)
  \/ DrainResume
  \/ GoOnline
  \/ GoOffline
  \/ \E t \in DueTimes : Tick(t, MaxTime)

\* a timer that was set fires, and the clock goes on; whether online and
\* offline events arrive is up to the network
AutoFairness ==
  /\ WF_vars(\E a \in BagToSet(inflight), draw \in BOOLEAN, j \in JitterChoices :
               AttemptComplete(a, draw, j))
  /\ WF_vars(DrainResume)
  /\ WF_vars(\E t \in DueTimes : Tick(t, MaxTime))

SpecQueueAuto == Init /\ [][AutoNext]_vars /\ AutoFairness

\* C12: while the client stays online, every queued message eventually has
\* status sent or failed
C12_EventuallySentOrFailed ==
  \A m \in MessageIds :
    [](HasStatus(state, m, "pending")
         => <>(\/ HasStatus(state, m, "sent")
               \/ HasStatus(state, m, "failed")
               \/ ~state.isOnline))


\* messages.filter((m) => m.status === status).length
RECURSIVE CountStatus(_, _)
CountStatus(list, status) ==
  IF list = <<>> THEN 0
  ELSE (IF Head(list).status = status THEN 1 ELSE 0) + CountStatus(Tail(list), status)

\* Array.from(state.messages.values()).flat()
RECURSIVE Flat(_, _)
Flat(st, keys) ==
  IF keys = <<>> THEN <<>> ELSE st.messages[Head(keys)] \o Flat(st, Tail(keys))

\* getQueueStats(userId?); sel is a user id or "all" for no argument
getQueueStats(st, sel) ==
  LET messages == IF sel = "all"
                    THEN Flat(st, KeysInOrder(st, DOMAIN st.messages))
                    ELSE UserMessages(st, sel)
  IN [total |-> Len(messages),
      pending |-> CountStatus(messages, "pending"),
      sending |-> CountStatus(messages, "sending"),
      sent |-> CountStatus(messages, "sent"),
      delivered |-> CountStatus(messages, "delivered"),
      failed |-> CountStatus(messages, "failed"),
      isOnline |-> st.isOnline,
      syncInProgress |-> st.syncInProgress,
      lastSyncTime |-> st.lastSyncTime]

\* the ids of the messages in one user's list
ListedIds(st, userId) ==
  {UserMessages(st, userId)[i].id : i \in 1..Len(UserMessages(st, userId))}

\* the ids in one user's list that have the given status
IdsWithStatus(st, userId, status) ==
  {m \in ListedIds(st, userId) : HasStatus(st, m, status)}

\* C13: queueMessage, processMessage, processPendingMessages, markDelivered
\* and retryMessage (and the completions of their sends) remove no message:
\* every id handed out is in some user's list, a message in a user's list
\* stays in that list, queueMessage(u) puts the new message in u's list, and
\* getQueueStats counts every listed message in total and every failed one
\* in failed
C13_NoRemovalWithoutPurge ==
  /\ [](/\ \A m \in 1..(nextId - 1) : \E u \in Users : m \in ListedIds(state, u)
        /\ getQueueStats(state, "all").total = nextId - 1
        /\ \A u \in Users :
             /\ getQueueStats(state, u).total = Cardinality(ListedIds(state, u))
             /\ getQueueStats(state, u).failed
                  = Cardinality(IdsWithStatus(state, u, "failed")))
  /\ [][/\ \A u \in Users : ListedIds(state, u) \subseteq ListedIds(state', u)
        /\ \A u \in Users : QueueMessage(u) => nextId \in ListedIds(state', u)]_vars

\* a message that was given up is still listed, counted as failed, and a
\* delivered one would be listed too: here the failed one after its attempts
C13_Witness ==
  \E u \in Users :
    /\ IdsWithStatus(state, u, "failed") # {}
    /\ getQueueStats(state, u).failed = 1
    /\ getQueueStats(state, "all").total = nextId - 1
    /\ \E m \in AllMessages(state) : m.status = "failed" /\ m.attempts = m.maxRetries


\* the message with the given id
MessageWithId(st, messageId) ==
  CHOOSE x \in AllMessages(st) : x.id = messageId

SerialNext ==
  \/ \E u \in Users : QueueMessage(u)
  \/ \E u \in Users, m \in MessageIds :
       AttemptsInFlight(m) = 0 /\ ProcessMessage(u, m)
  \/ \E a \in BagToSet(inflight), draw \in BOOLEAN, j \in JitterChoices :
       AttemptComplete(a, draw, j)
  \/ \E t \in DueTimes : Tick(t, MaxSerialTime)

SpecSerial == Init /\ [][SerialNext]_vars

\* C15: when the transport has failed the first k send attempts of a message
\* (k < maxRetries) and the next attempt succeeds, the message has status sent
\* and attempts = k + 1; failures[m] is k, the rejected attempts so far
C15_SentAfterKFailures ==
  /\ [](\A m \in AllMessages(state) :
          /\ failures[m.id] < m.maxRetries
          /\ m.status = "sent" => m.attempts = failures[m.id] + 1)
  /\ [][\A m \in MessageIds :
          (AttemptsInFlight(m)' < AttemptsInFlight(m) /\ failures'[m] = failures[m])
            => /\ HasStatus(state', m, "sent")
               /\ MessageWithId(state', m).attempts = failures[m] + 1]_vars

\* three rejected attempts, then the fourth went through
C15_Witness ==
  \E m \in AllMessages(state) :
    m.status = "sent" /\ failures[m.id] = 3 /\ m.attempts = 4


\* C16: a message for which the transport has failed maxRetries times is
\* failed (read generously: it is failed, or it has no attempts left so that
\* the next processMessage call makes it failed, or another attempt already
\* got it sent or delivered); and retryMessage on a failed message followed
\* by a send that succeeds leaves it sent
C16_FiveFailuresThenRetry ==
  /\ [](\A m \in AllMessages(state) :
          failures[m.id] >= m.maxRetries
            => \/ m.status \in {"failed", "sent", "delivered"}
               \/ m.attempts >= m.maxRetries)
  /\ [][\A m \in MessageIds :
          /\ (HasStatus(state, m, "failed") /\ RetryMessage(m))
               => /\ HasStatus(state', m, "pending")
                  /\ AttemptsInFlight(m)' = AttemptsInFlight(m) + 1
          /\ (AttemptsInFlight(m)' < AttemptsInFlight(m) /\ failures'[m] = failures[m])
               => HasStatus(state', m, "sent")]_vars


-----------------------------------------------------------------------------
(***************************************************************************)
(* processOutgoingMessage: validate, resolve the session, encrypt, queue    *)
(* and store, send.  A string is modelled by a token for its text and its   *)
(* length; a missing field is undefined.                                    *)
(***************************************************************************)

\* the limit of validateMessage on content.length
ContentLimit == 65536

MissingContent == [present |-> FALSE, body |-> Undefined, length |-> 0]

TextOfLength(body, n) == [present |-> TRUE, body |-> body, length |-> n]

OutgoingContents ==
  {MissingContent, TextOfLength("", 0), TextOfLength("hi", 2),
   TextOfLength("x65536", ContentLimit), TextOfLength("x65537", ContentLimit + 1)}

\* the PlaintextMessage objects runtime p is asked to send to its peer
Plaintexts(p) ==
  {[conversationId |-> c, content |-> x,
    senderId |-> EndpointOf(p).userId, senderDeviceId |-> EndpointOf(p).deviceId,
    recipientId |-> EndpointOf(PeerOf(p)).userId,
    recipientDeviceId |-> EndpointOf(PeerOf(p)).deviceId] :
     c \in {"c1", Undefined}, x \in OutgoingContents}

\* !message.conversationId
NoConversationId(message) == message.conversationId \in {Undefined, ""}

\* !message.content
NoContent(message) == ~message.content.present \/ message.content.length = 0

validateMessage_Off(message) ==
  IF NoConversationId(message) \/ NoContent(message) THEN FALSE
  ELSE IF message.content.length >= ContentLimit THEN FALSE
  ELSE TRUE

\* messagePipeline.validateMessage
validateMessage(message) ==
  IF NoConversationId(message) \/ NoContent(message) THEN FALSE
  ELSE IF message.content.length > ContentLimit THEN FALSE
  ELSE TRUE

\* messagePipeline.ensureSessionEstablished: the stored object, or 0 for null
ensureSessionEstablished(p, plaintext) ==
  getOrCreateSession(p, plaintext.senderId, plaintext.senderDeviceId,
                     plaintext.recipientId, plaintext.recipientDeviceId)

\* the processOutgoingMessage calls that have not returned
OutgoingInProgress ==
  {i \in 1..MaxTasks : tasks[i].kind = "outgoing" /\ tasks[i].pc # "returned"}

\* the messages in db.messages of runtime p
StoredMessages(p) ==
  UNION {{db[p][c][k] : k \in 1..Len(db[p][c])} : c \in DOMAIN db[p]}

\* a call that has returned: its promise holds the value until the caller's
\* continuation runs
Returned(p, plaintext, value) ==
  [kind |-> "outgoing", proc |-> p, obj |-> 0, pc |-> "returned",
   plaintext |-> plaintext, result |-> value]

\* processOutgoingMessage up to its first await: validateMessage has run
ProcessOutgoingMessage(p, plaintext) ==
  /\ FreeSlots # {}
  /\ Cardinality(OutgoingInProgress) + Cardinality(StoredMessages(p)) < MaxOutgoing
  /\ SessionAt(p) # 0 =>
       /\ heap[p][SessionAt(p)].sessionKey.messageCounter < MaxCounter
       /\ Evolutions(heap[p][SessionAt(p)].sessionKey.chainKey) < MaxEvolutions
  /\ tasks' = [tasks EXCEPT ![NewSlot] =
       [kind |-> "outgoing", proc |-> p, obj |-> 0, pc |-> "validated",
        plaintext |-> plaintext, isValid |-> validateMessage(plaintext)]]
  /\ UNCHANGED <<sessionStore, heap, network, accepted, handshakes, completed>>
  /\ UNCHANGED <<queueVars, now, outVars, deviceVars>>

\* `if (!isValid) return null`, then ensureSessionEstablished up to the await
\* of getOrCreateSession, which has read the session store
OutgoingValidated(i) ==
  /\ tasks[i].kind = "outgoing" /\ tasks[i].pc = "validated"
  /\ tasks' = [tasks EXCEPT ![i] =
       IF ~tasks[i].isValid
         THEN Returned(tasks[i].proc, tasks[i].plaintext, "null")
         ELSE [kind |-> "outgoing", proc |-> tasks[i].proc,
               obj |-> ensureSessionEstablished(tasks[i].proc, tasks[i].plaintext),
               pc |-> "resolved", plaintext |-> tasks[i].plaintext]]
  /\ UNCHANGED <<sessionStore, heap, network, accepted, handshakes, completed>>
  /\ UNCHANGED <<queueVars, now, outVars, deviceVars>>

OutgoingSession_Off(i) ==
  /\ tasks[i].kind = "outgoing" /\ tasks[i].pc = "resolved"
  /\ LET ts1 == [tasks EXCEPT ![i] =
           IF tasks[i].obj = 0
             THEN Returned(tasks[i].proc, tasks[i].plaintext, "processed")
             ELSE [kind |-> "outgoing", proc |-> tasks[i].proc, obj |-> tasks[i].obj,
                   pc |-> "prepared", plaintext |-> tasks[i].plaintext,
                   payload |-> prepareMessageForEncryption(
                                 tasks[i].plaintext.content.body, now)]]
     IN /\ tasks' = ts1
        /\ heap' = Collect(heap, sessionStore, ts1)
  /\ UNCHANGED <<sessionStore, network, accepted, handshakes, completed>>
  /\ UNCHANGED <<queueVars, now, outVars, deviceVars>>

\* `if (!session) return null`, then encryptMessage up to the await of
\* prepareMessageForEncryption
OutgoingSession(i) ==
  /\ tasks[i].kind = "outgoing" /\ tasks[i].pc = "resolved"
  /\ LET ts1 == [tasks EXCEPT ![i] =
           IF tasks[i].obj = 0
             THEN Returned(tasks[i].proc, tasks[i].plaintext, "null")
             ELSE [kind |-> "outgoing", proc |-> tasks[i].proc, obj |-> tasks[i].obj,
                   pc |-> "prepared", plaintext |-> tasks[i].plaintext,
                   payload |-> prepareMessageForEncryption(
                                 tasks[i].plaintext.content.body, now)]]
     IN /\ tasks' = ts1
        /\ heap' = Collect(heap, sessionStore, ts1)
  /\ UNCHANGED <<sessionStore, network, accepted, handshakes, completed>>
  /\ UNCHANGED <<queueVars, now, outVars, deviceVars>>

\* encryptMessage: cryptoUtils.evolveChainKey(session.sessionKey.chainKey), awaited
OutgoingEvolve(i) ==
  /\ tasks[i].kind = "outgoing" /\ tasks[i].pc = "prepared"
  /\ tasks' = [tasks EXCEPT ![i] =
       [kind |-> "outgoing", proc |-> tasks[i].proc, obj |-> tasks[i].obj,
        pc |-> "evolved", plaintext |-> tasks[i].plaintext,
        payload |-> tasks[i].payload,
        newChainKey |->
          evolveChainKey(heap[tasks[i].proc][tasks[i].obj].sessionKey.chainKey, now)]]
  /\ UNCHANGED <<sessionStore, heap, network, accepted, handshakes, completed>>
  /\ UNCHANGED <<queueVars, now, outVars, deviceVars>>

\* encryptMessage: the chain key is assigned and cryptoUtils.encryptMessage
\* builds the envelope, awaited
OutgoingSeal(i, draw) ==
  /\ tasks[i].kind = "outgoing" /\ tasks[i].pc = "evolved"
  /\ LET p == tasks[i].proc
         o == tasks[i].obj
         hp1 == [heap EXCEPT ![p][o].sessionKey.chainKey = tasks[i].newChainKey]
     IN /\ heap' = hp1
        /\ tasks' = [tasks EXCEPT ![i] =
             [kind |-> "outgoing", proc |-> p, obj |-> o, pc |-> "sealed",
              plaintext |-> tasks[i].plaintext,
              encrypted |-> cryptoEncryptMessage(tasks[i].payload,
                              hp1[p][o].sessionKey,
                              tasks[i].plaintext.senderDeviceId,
                              tasks[i].plaintext.recipientDeviceId, now, draw)]]
  /\ UNCHANGED <<sessionStore, network, accepted, handshakes, completed>>
  /\ UNCHANGED <<queueVars, now, outVars, deviceVars>>

\* encryptMessage: session.sessionKey.messageCounter += 1; return encrypted
OutgoingEncrypted(i) ==
  /\ tasks[i].kind = "outgoing" /\ tasks[i].pc = "sealed"
  /\ heap' = [heap EXCEPT ![tasks[i].proc][tasks[i].obj].sessionKey.messageCounter = @ + 1]
  /\ tasks' = [tasks EXCEPT ![i] =
       [kind |-> "outgoing", proc |-> tasks[i].proc, obj |-> tasks[i].obj,
        pc |-> "encrypted", plaintext |-> tasks[i].plaintext,
        encrypted |-> tasks[i].encrypted]]
  /\ UNCHANGED <<sessionStore, network, accepted, handshakes, completed>>
  /\ UNCHANGED <<queueVars, now, outVars, deviceVars>>

\* the ProcessedMessage of queueMessageForDelivery; call is the slot of the
\* call that holds the object
ProcessedMessage(call, plaintext, encrypted, sessionId, t, status) ==
  [call |-> call, encrypted |-> encrypted,
   metadata |-> [conversationId |-> plaintext.conversationId,
                 senderId |-> plaintext.senderId,
                 recipientId |-> plaintext.recipientId,
                 sessionId |-> sessionId, timestamp |-> t, status |-> status]]

\* the Message queueMessageForDelivery stores
DbMessage(messageId, plaintext, encrypted, t) ==
  [messageId |-> messageId,
   conversationId |-> plaintext.conversationId,
   senderDeviceId |-> plaintext.senderDeviceId,
   senderUserId |-> plaintext.senderId,
   ciphertext |-> encrypted.ciphertext, nonce |-> encrypted.nonce,
   timestamp |-> encrypted.timestamp, messageCounter |-> encrypted.messageCounter,
   headerSecret |-> encrypted.headerSecret, status |-> "pending", createdAt |-> t]

\* db.storeMessage
storeMessage(messages, message) ==
  MapSet(messages, message.conversationId,
         Append(IF message.conversationId \in DOMAIN messages
                  THEN messages[message.conversationId] ELSE <<>>,
                message))

\* queueMessageForDelivery up to the await of db.storeMessage: the processed
\* message is pushed on pipeline.queue and the database message is stored
OutgoingQueue(i) ==
  /\ tasks[i].kind = "outgoing" /\ tasks[i].pc = "encrypted"
  /\ LET p == tasks[i].proc
         session == heap[p][tasks[i].obj]
     IN /\ pipeline' = [pipeline EXCEPT ![p] =
             Append(@, ProcessedMessage(i, tasks[i].plaintext, tasks[i].encrypted,
                                        session.sessionId, now, "queued"))]
        /\ db' = [db EXCEPT ![p] =
             storeMessage(@, DbMessage(Cardinality(StoredMessages(p)) + 1,
                                       tasks[i].plaintext, tasks[i].encrypted, now))]
  /\ tasks' = [tasks EXCEPT ![i] =
       [kind |-> "outgoing", proc |-> tasks[i].proc, obj |-> tasks[i].obj,
        pc |-> "stored", plaintext |-> tasks[i].plaintext]]
  /\ UNCHANGED <<sessionStore, heap, network, accepted, handshakes, completed>>
  /\ UNCHANGED <<queueVars, now, receipts, deviceVars>>

\* pipeline.queue.indexOf(processed); 0 stands for -1
IndexOfCall(queue, call) ==
  IF \E k \in 1..Len(queue) : queue[k].call = call
    THEN CHOOSE k \in 1..Len(queue) : queue[k].call = call
    ELSE 0

\* sendMessage up to the await of its timer: status "sending"
OutgoingSend(i) ==
  /\ tasks[i].kind = "outgoing" /\ tasks[i].pc = "stored"
  /\ LET p == tasks[i].proc
         k == IndexOfCall(pipeline[p], i)
     IN pipeline' = [pipeline EXCEPT ![p][k].metadata.status = "sending"]
  /\ tasks' = [tasks EXCEPT ![i] =
       [kind |-> "outgoing", proc |-> tasks[i].proc, obj |-> tasks[i].obj,
        pc |-> "sending", plaintext |-> tasks[i].plaintext]]
  /\ UNCHANGED <<sessionStore, heap, network, accepted, handshakes, completed, db>>
  /\ UNCHANGED <<queueVars, now, receipts, deviceVars>>

\* sendMessage after its timer: status "sent", the processed message is
\* spliced out of pipeline.queue, and processOutgoingMessage returns it
OutgoingSent(i) ==
  /\ tasks[i].kind = "outgoing" /\ tasks[i].pc = "sending"
  /\ LET p == tasks[i].proc
         k == IndexOfCall(pipeline[p], i)
         ts1 == [tasks EXCEPT ![i] = Returned(p, tasks[i].plaintext, "processed")]
     IN /\ pipeline' = [pipeline EXCEPT ![p] =
             SubSeq(@, 1, k - 1) \o SubSeq(@, k + 1, Len(@))]
        /\ tasks' = ts1
        /\ heap' = Collect(heap, sessionStore, ts1)
  /\ UNCHANGED <<sessionStore, network, accepted, handshakes, completed, db>>
  /\ UNCHANGED <<queueVars, now, receipts, deviceVars>>

\* the continuation of the caller takes the value of the promise
OutgoingTaken(i) ==
  /\ tasks[i].kind = "outgoing" /\ tasks[i].pc = "returned"
  /\ tasks' = [tasks EXCEPT ![i] = Idle]
  /\ UNCHANGED <<sessionStore, heap, network, accepted, handshakes, completed>>
  /\ UNCHANGED <<queueVars, now, outVars, deviceVars>>

\* runtime p1 sends to its peer while sessions are set up and cleared
OutgoingNext ==
  \/ Handshake("p1", GenuineBundle("p2"), TRUE, "r1", "r2")
  \/ ClearSession("p1", SessionIdAt("p1"))
  \/ \E plaintext \in Plaintexts("p1") : ProcessOutgoingMessage("p1", plaintext)
  \/ \E i \in 1..MaxTasks : OutgoingValidated(i)
  \/ \E i \in 1..MaxTasks : OutgoingSession(i)
  \/ \E i \in 1..MaxTasks : OutgoingEvolve(i)
  \/ \E i \in 1..MaxTasks : OutgoingSeal(i, "r1")
  \/ \E i \in 1..MaxTasks : OutgoingEncrypted(i)
  \/ \E i \in 1..MaxTasks : OutgoingQueue(i)
  \/ \E i \in 1..MaxTasks : OutgoingSend(i)
  \/ \E i \in 1..MaxTasks : OutgoingSent(i)
  \/ \E i \in 1..MaxTasks : OutgoingTaken(i)

SpecOutgoing == Init /\ [][OutgoingNext]_vars


-----------------------------------------------------------------------------
(***************************************************************************)
(* processOutgoingMessage: properties.                                      *)
(***************************************************************************)

\* the call in slot i is a processOutgoingMessage call at the given point
OutgoingAt(i, pc) == tasks[i].kind = "outgoing" /\ tasks[i].pc = pc

\* C17: processOutgoingMessage returns null when conversationId or content
\* is missing (undefined or empty) or content is longer than 65536; it lets
\* content of length 1 to 65536 with a conversation id pass validation; the
\* steps of a rejected call change neither a session nor the session store,
\* pipeline.queue or db.messages; and no call returns a processed message
\* for a plaintext that had to be rejected
C17_ValidationRejectsWithoutEffect ==
  /\ [](\A i \in 1..MaxTasks :
          (OutgoingAt(i, "returned") /\ tasks[i].result = "processed")
            => /\ ~NoConversationId(tasks[i].plaintext)
               /\ tasks[i].plaintext.content.present
               /\ tasks[i].plaintext.content.length \in 1..65536)
  /\ [][/\ \A p \in Procs : \A plaintext \in Plaintexts(p) :
             ProcessOutgoingMessage(p, plaintext)
               => UNCHANGED <<sessionStore, heap, pipeline, db, network>>
        /\ \A i \in 1..MaxTasks :
             (OutgoingAt(i, "validated") /\ OutgoingValidated(i))
               => LET plaintext == tasks[i].plaintext
                  IN IF \/ NoConversationId(plaintext)
                        \/ NoContent(plaintext)
                        \/ plaintext.content.length > 65536
                       THEN /\ tasks'[i] = Returned(tasks[i].proc, plaintext, "null")
                            /\ UNCHANGED <<sessionStore, heap, pipeline, db, network>>
                       ELSE OutgoingAt(i, "resolved")']_vars

\* the texts of the messages runtime p has stored
StoredContents(p) ==
  {JSONparse(FromBase64(m.ciphertext)).content : m \in StoredMessages(p)}

\* a message of exactly 65536 characters went through and was stored, and a
\* call with 65537 characters has returned null
C17_Witness ==
  /\ "x65536" \in StoredContents("p1")
  /\ \E i \in 1..MaxTasks :
       /\ OutgoingAt(i, "returned") /\ tasks[i].result = "null"
       /\ tasks[i].plaintext.content.length = 65537
       /\ ~NoConversationId(tasks[i].plaintext)


\* runtime p has no session stored for the conversation with its peer
NoSessionAt(p) == SessionIdAt(p) \notin DOMAIN sessionStore[p]

-----------------------------------------------------------------------------
(***************************************************************************)
(* The session store of one runtime under completeHandshake, storeSession,  *)
(* rekeySession and clearSession, called for either order of the two        *)
(* parties.  A caller may keep a session it looked up and store it later.   *)
(***************************************************************************)

Devices == {"d1", "d2"}

\* the ways of naming two different users with two different devices
PartyPairs ==
  {pp \in [userId1 : Users, deviceId1 : Devices, userId2 : Users, deviceId2 : Devices] :
     pp.userId1 # pp.userId2 /\ pp.deviceId1 # pp.deviceId2}

\* a caller looks a session up (getOrCreateSession) and keeps the object
HoldSession(p, pp) ==
  /\ FreeSlots # {}
  /\ getOrCreateSession(p, pp.userId1, pp.deviceId1, pp.userId2, pp.deviceId2) # 0
  /\ tasks' = [tasks EXCEPT ![NewSlot] =
       [kind |-> "held", proc |-> p, pc |-> "held",
        obj |-> getOrCreateSession(p, pp.userId1, pp.deviceId1,
                                   pp.userId2, pp.deviceId2)]]
  /\ UNCHANGED <<sessionStore, heap, network, accepted, handshakes, completed>>
  /\ UNCHANGED <<queueVars, now, outVars, deviceVars>>

\* sessionManager.storeSession with a session the caller kept
StoreSession(i) ==
  /\ tasks[i].kind = "held"
  /\ LET p == tasks[i].proc
         st1 == [sessionStore EXCEPT ![p] =
                   MapSet(@, heap[p][tasks[i].obj].sessionId, tasks[i].obj)]
     IN /\ sessionStore' = st1
        /\ heap' = Collect(heap, st1, tasks)
  /\ UNCHANGED <<tasks, network, accepted, handshakes, completed>>
  /\ UNCHANGED <<queueVars, now, outVars, deviceVars>>

\* the caller drops the session it kept
ReleaseSession(i) ==
  /\ tasks[i].kind = "held"
  /\ tasks' = [tasks EXCEPT ![i] = Idle]
  /\ heap' = Collect(heap, sessionStore, [tasks EXCEPT ![i] = Idle])
  /\ UNCHANGED <<sessionStore, network, accepted, handshakes, completed>>
  /\ UNCHANGED <<queueVars, now, outVars, deviceVars>>

\* completeHandshake called for the two parties in the given order
HandshakeFor(p, pp, draw) ==
  CompleteHandshake(p, pp.userId1, pp.deviceId1, pp.userId2, pp.deviceId2,
                    generateDeviceKeys(pp.deviceId1),
                    generateX3DHBundle(generateDeviceKeys(pp.deviceId2), now),
                    TRUE, draw, draw)

StoreNext ==
  \/ \E pp \in PartyPairs, draw \in RandomDraws : HandshakeFor("p1", pp, draw)
  \/ \E pp \in PartyPairs : HoldSession("p1", pp)
  \/ \E i \in 1..MaxTasks : StoreSession(i)
  \/ \E i \in 1..MaxTasks : ReleaseSession(i)
  \/ \E id \in DOMAIN sessionStore["p1"] : RekeySession("p1", id)
  \/ \E i \in 1..MaxTasks : RekeyReturn(i)
  \/ \E id \in DOMAIN sessionStore["p1"] : ClearSession("p1", id)

SpecStore == Init /\ [][StoreNext]_vars

\* the two parties of a session, whichever was named first
PartiesOf(session) ==
  {<<session.userId1, session.deviceId1>>, <<session.userId2, session.deviceId2>>}

\* the sessions in the store of runtime p
StoredSessions(p) == {heap[p][o] : o \in Values(sessionStore[p])}

\* C19: in a runtime's store getOrCreateSession gives the same record for
\* (uA, dA, uB, dB) and for (uB, dB, uA, dA); right after completeHandshake,
\* whichever party it named first, both orders give the session it built;
\* and the store never holds two entries for the same two parties
C19_OneSessionPerPair ==
  /\ [](/\ \A pp \in PartyPairs :
             getOrCreateSession("p1", pp.userId1, pp.deviceId1, pp.userId2, pp.deviceId2)
               = getOrCreateSession("p1", pp.userId2, pp.deviceId2, pp.userId1, pp.deviceId1)
        /\ \A id1, id2 \in DOMAIN sessionStore["p1"] :
             PartiesOf(heap["p1"][sessionStore["p1"][id1]])
                 = PartiesOf(heap["p1"][sessionStore["p1"][id2]])
               => id1 = id2)
  /\ [][\A pp \in PartyPairs, draw \in RandomDraws :
          HandshakeFor("p1", pp, draw)
            => LET o == getOrCreateSession("p1", pp.userId1, pp.deviceId1,
                                           pp.userId2, pp.deviceId2)'
               IN /\ o # 0
                  /\ o = getOrCreateSession("p1", pp.userId2, pp.deviceId2,
                                            pp.userId1, pp.deviceId1)'
                  /\ heap'["p1"][o].userId1 = pp.userId1
                  /\ heap'["p1"][o].deviceId1 = pp.deviceId1
                  /\ heap'["p1"][o].state = "established"]_vars

\* after two completeHandshake calls the stored session is one in which bob's
\* side was named first; it was rekeyed, and a lookup that names alice first
\* finds it
C19_Witness ==
  /\ Cardinality(DOMAIN sessionStore["p1"]) = 1
  /\ BagCardinality(completed) >= 2
  /\ \E s \in StoredSessions("p1") :
       /\ s.userId1 = "bob" /\ s.deviceId1 = "d2" /\ s.state = "rekeying"
       /\ getOrCreateSession("p1", "alice", "d1", "bob", "d2") # 0
       /\ heap["p1"][getOrCreateSession("p1", "alice", "d1", "bob", "d2")] = s


\* C20: whenever getOrCreateSession returns a session, that session's state
\* is established (for a pair whose stored session is not established it
\* returns null)
C20_ReturnsOnlyEstablished ==
  \A pp \in PartyPairs :
    LET o == getOrCreateSession("p1", pp.userId1, pp.deviceId1, pp.userId2, pp.deviceId2)
    IN o # 0 => heap["p1"][o].state = "established"


-----------------------------------------------------------------------------
(***************************************************************************)
(* Device manager (lib/device-manager).  The three Maps are module-level,  *)
(* one per runtime; one runtime is followed.  verifyDevice, removeDevice,  *)
(* getPendingSyncEvents and acknowledgeSyncEvent do all their work before  *)
(* their first await; registerDevice and rotateKeys go on after awaits, so *)
(* they are split where they await.                                        *)
(***************************************************************************)

\* the registerDevice calls followed in one behaviour
MaxDevices == 3

\* the sync events recorded in one behaviour
MaxSyncEvents == 3

\* the clock of the device behaviours
MaxDeviceTime == 1

\* the device ids in use
DeviceIds == Devices \cup {"d3"}

\* trustedAt of a device nobody trusted yet (undefined)
NoTime == -1

\* one day in milliseconds: 24 * 60 * 60 * 1000
DayMs == 86400000

\* the rotation interval 30 * 24 * 60 * 60 * 1000 ms, counted in days: the
\* product does not fit the integers of the checker, so a time that an
\* interval was added to is kept as whole days plus milliseconds
RotationIntervalDays == 30

\* t + rotationIntervalMs for an interval of so many days
PlusDays(t, intervalDays) ==
  [days |-> intervalDays + t \div DayMs, ms |-> t % DayMs]

\* Date.now() >= time, for a time made by PlusDays
AtOrAfter(t, time) ==
  \/ t \div DayMs > time.days
  \/ t \div DayMs = time.days /\ t % DayMs >= time.ms

\* s.substring(0, 16).toUpperCase()
Upper16(s) == <<"upper16(">> \o s \o <<")">>

\* deviceManager.generateDeviceFingerprint
generateDeviceFingerprint(deviceKeys) ==
  Upper16(Base64(deviceKeys.signingKeys.publicKey \o <<":">> \o
                 deviceKeys.agreementKeys.publicKey))

\* the keys a device draws when it rotates them
RotatedKeys(deviceId) == generateDeviceKeys(deviceId \o "/rotated")

\* map.get(key) || []
GetOrEmpty(map, key) == IF key \in DOMAIN map THEN map[key] ELSE <<>>

\* every DeviceInfo object ever made has its own identity: the number of
\* the registerDevice call that made it (db.devices only grows)
RECURSIVE TotalLen(_, _)
TotalLen(map, keys) ==
  IF keys = {} THEN 0
  ELSE LET k == CHOOSE x \in keys : TRUE
       IN Len(map[k]) + TotalLen(map, keys \ {k})

NewDeviceObject == 1 + TotalLen(dbDevices, DOMAIN dbDevices)

\* devices.find((d) => d.deviceId === deviceId): its index, 0 for none
FindDevice(devices, deviceId) ==
  IF \E i \in 1..Len(devices) : devices[i].deviceId = deviceId
    THEN CHOOSE i \in 1..Len(devices) :
           /\ devices[i].deviceId = deviceId
           /\ \A j \in 1..(i - 1) : devices[j].deviceId # deviceId
    ELSE 0

\* deviceManager.getDevice: the object found in the lists of all users, 0
\* for null.  A device id is the UUID generateDeviceKeys drew, so it is in
\* the registry once at most (see RegisterDevice).
getDevice(registry, deviceId) ==
  LET holders == {u \in DOMAIN registry : FindDevice(registry[u], deviceId) # 0}
  IN IF holders = {} THEN 0
     ELSE LET u == CHOOSE h \in holders : TRUE
          IN registry[u][FindDevice(registry[u], deviceId)].oid

\* where the object oid is in the registry: <<user, index>>, <<>> when it
\* was spliced out
PlaceOf(registry, oid) ==
  LET places == {<<u, i>> \in (DOMAIN registry) \X (1..MaxDevices) :
                   i <= Len(registry[u]) /\ registry[u][i].oid = oid}
  IN IF places = {} THEN <<>> ELSE CHOOSE pl \in places : TRUE

\* the sync event queueDeviceSync builds
SyncEvent(userId, sourceDeviceId, action, payload, t, syncId) ==
  [syncId |-> syncId,
   deviceId |-> sourceDeviceId,
   userId |-> userId,
   action |-> action,
   payload |-> payload,
   timestamp |-> t,
   signature |-> Base64(<<action, ":", sourceDeviceId>>)]

\* generateUUID: a fresh sync id
NewSyncId == Len(syncLog) + 1

\* deviceManager.queueDeviceSync: the outboxes after the push
queueDeviceSync(queues, userId, sourceDeviceId, action, payload, t, syncId) ==
  MapSet(queues, userId,
         Append(GetOrEmpty(queues, userId),
                SyncEvent(userId, sourceDeviceId, action, payload, t, syncId)))

\* the devices of the user other than the source, when the event is recorded
Audience(registry, userId, sourceDeviceId) ==
  {GetOrEmpty(registry, userId)[i].deviceId : i \in 1..Len(GetOrEmpty(registry, userId))}
    \ {sourceDeviceId}

\* history of queueDeviceSync
Logged(registry, userId, sourceDeviceId, action) ==
  Append(syncLog, [syncId |-> NewSyncId, userId |-> userId, deviceId |-> sourceDeviceId,
                   action |-> action,
                   audience |-> Audience(registry, userId, sourceDeviceId)])

\* a scheduleKeyRotation that makes the next rotation due at once
scheduleKeyRotation_Off(schedules, deviceId, intervalDays, t) ==
  MapSet(schedules, deviceId,
         [deviceId |-> deviceId,
          lastRotation |-> t,
          nextRotation |-> PlusDays(t, 0),
          rotationIntervalDays |-> intervalDays])

\* deviceManager.scheduleKeyRotation: the schedules after the set
scheduleKeyRotation(schedules, deviceId, intervalDays, t) ==
  MapSet(schedules, deviceId,
         [deviceId |-> deviceId,
          lastRotation |-> t,
          nextRotation |-> PlusDays(t, intervalDays),
          rotationIntervalDays |-> intervalDays])

\* deviceManager.needsKeyRotation
needsKeyRotation(schedules, deviceId, t) ==
  /\ deviceId \in DOMAIN schedules
  /\ AtOrAfter(t, schedules[deviceId].nextRotation)

\* deviceManager.getPendingSyncEvents
getPendingSyncEvents(queues, userId, forDeviceId) ==
  SelectSeq(GetOrEmpty(queues, userId), LAMBDA s : s.deviceId # forDeviceId)

\* a free slot for a call
FreeCalls == {i \in 1..MaxDeviceCalls : deviceCalls[i].kind = "idle"}

\* the device ids that registerDevice calls in progress are about to add
BeingRegistered ==
  {deviceCalls[i].deviceKeys.deviceId :
     i \in {j \in 1..MaxDeviceCalls : deviceCalls[j].kind = "register"}}

\* registerDevice(userId, deviceName, deviceType, deviceKeys, isCurrentDevice)
\* up to its first await: the fingerprint is computed.  The keys are those
\* of a device that is not registered.
RegisterDevice(userId, deviceId, isCurrentDevice) ==
  /\ NewDeviceObject + Cardinality(BeingRegistered) <= MaxDevices
  /\ getDevice(deviceRegistry, deviceId) = 0
  /\ deviceId \notin BeingRegistered
  /\ FreeCalls # {}
  /\ LET i == CHOOSE j \in FreeCalls : TRUE
         deviceKeys == generateDeviceKeys(deviceId)
     IN deviceCalls' = [deviceCalls EXCEPT ![i] =
          [kind |-> "register", pc |-> "fingerprint", userId |-> userId,
           deviceKeys |-> deviceKeys, isCurrentDevice |-> isCurrentDevice,
           deviceFingerprint |-> generateDeviceFingerprint(deviceKeys),
           oid |-> 0]]
  /\ UNCHANGED <<deviceRegistry, deviceSyncQueue, keyRotationSchedules, dbDevices,
                 syncLog, consumed>>
  /\ UNCHANGED <<queueVars, now, sessionVars>>

\* the DeviceInfo of a registerDevice call
DeviceInfoOf(call, t, oid) ==
  [oid |-> oid,
   deviceId |-> call.deviceKeys.deviceId,
   userId |-> call.userId,
   deviceName |-> "device",
   deviceType |-> "web",
   publicSigningKey |-> call.deviceKeys.signingKeys.publicKey,
   publicAgreementKey |-> call.deviceKeys.agreementKeys.publicKey,
   deviceFingerprint |-> call.deviceFingerprint,
   verified |-> call.isCurrentDevice,
   trustedAt |-> IF call.isCurrentDevice THEN t ELSE NoTime,
   createdAt |-> t,
   lastSeen |-> t,
   isCurrentDevice |-> call.isCurrentDevice]

\* the DBDevice registerDevice hands to db.registerDevice
DBDeviceOf(deviceInfo) ==
  [deviceId |-> deviceInfo.deviceId,
   userId |-> deviceInfo.userId,
   deviceName |-> deviceInfo.deviceName,
   publicSigningKey |-> deviceInfo.publicSigningKey,
   publicAgreementKey |-> deviceInfo.publicAgreementKey,
   verified |-> deviceInfo.verified,
   createdAt |-> deviceInfo.createdAt,
   lastSeen |-> deviceInfo.lastSeen]

\* registerDevice after the fingerprint: the DeviceInfo goes into the
\* registry and db.registerDevice stores its record
RegisterStore(i) ==
  /\ deviceCalls[i].kind = "register" /\ deviceCalls[i].pc = "fingerprint"
  /\ LET call == deviceCalls[i]
         deviceInfo == DeviceInfoOf(call, now, NewDeviceObject)
     IN /\ deviceRegistry' = MapSet(deviceRegistry, call.userId,
                               Append(GetOrEmpty(deviceRegistry, call.userId), deviceInfo))
        /\ dbDevices' = MapSet(dbDevices, call.userId,
                          Append(GetOrEmpty(dbDevices, call.userId), DBDeviceOf(deviceInfo)))
        /\ deviceCalls' = [deviceCalls EXCEPT ![i].pc = "stored", ![i].oid = deviceInfo.oid]
  /\ UNCHANGED <<deviceSyncQueue, keyRotationSchedules, syncLog, consumed>>
  /\ UNCHANGED <<queueVars, now, sessionVars>>

\* registerDevice after db.registerDevice: the "device-added" event
RegisterSync(i) ==
  /\ deviceCalls[i].kind = "register" /\ deviceCalls[i].pc = "stored"
  /\ Len(syncLog) < MaxSyncEvents
  /\ LET call == deviceCalls[i]
         deviceId == call.deviceKeys.deviceId
     IN /\ deviceSyncQueue' = queueDeviceSync(deviceSyncQueue, call.userId, deviceId,
                                "device-added",
                                [deviceId |-> deviceId, deviceName |-> "device",
                                 deviceType |-> "web",
                                 deviceFingerprint |-> call.deviceFingerprint],
                                now, NewSyncId)
        /\ syncLog' = Logged(deviceRegistry, call.userId, deviceId, "device-added")
        /\ deviceCalls' = [deviceCalls EXCEPT ![i].pc = "synced"]
  /\ UNCHANGED <<deviceRegistry, keyRotationSchedules, dbDevices, consumed>>
  /\ UNCHANGED <<queueVars, now, sessionVars>>

\* registerDevice after queueDeviceSync: the rotation is scheduled and the
\* call returns
RegisterSchedule(i) ==
  /\ deviceCalls[i].kind = "register" /\ deviceCalls[i].pc = "synced"
  /\ keyRotationSchedules' = scheduleKeyRotation(keyRotationSchedules,
                               deviceCalls[i].deviceKeys.deviceId,
                               RotationIntervalDays, now)
  /\ deviceCalls' = [deviceCalls EXCEPT ![i] = NoCall]
  /\ UNCHANGED <<deviceRegistry, deviceSyncQueue, dbDevices, syncLog, consumed>>
  /\ UNCHANGED <<queueVars, now, sessionVars>>

\* registry with the fields of the object at place pl replaced
WithDevice(registry, pl, device) ==
  [registry EXCEPT ![pl[1]] = [@ EXCEPT ![pl[2]] = device]]

\* deviceManager.verifyDevice(userId, deviceId, approvedByDeviceId)
VerifyDevice(userId, deviceId, approvedByDeviceId) ==
  /\ Len(syncLog) < MaxSyncEvents
  /\ IF userId \notin DOMAIN deviceRegistry
       THEN UNCHANGED <<deviceRegistry, deviceSyncQueue, syncLog>>
     ELSE IF FindDevice(deviceRegistry[userId], deviceId) = 0
       THEN UNCHANGED <<deviceRegistry, deviceSyncQueue, syncLog>>
     ELSE LET index == FindDevice(deviceRegistry[userId], deviceId)
              device == deviceRegistry[userId][index]
          IN /\ deviceRegistry' = WithDevice(deviceRegistry, <<userId, index>>,
                                    [device EXCEPT !.verified = TRUE, !.trustedAt = now])
             /\ deviceSyncQueue' = queueDeviceSync(deviceSyncQueue, userId,
                                     approvedByDeviceId, "device-verified",
                                     [deviceId |-> deviceId, verifiedAt |-> now,
                                      approvedByDeviceId |-> approvedByDeviceId],
                                     now, NewSyncId)
             /\ syncLog' = Logged(deviceRegistry, userId, approvedByDeviceId,
                                  "device-verified")
  /\ UNCHANGED <<keyRotationSchedules, dbDevices, deviceCalls, consumed>>
  /\ UNCHANGED <<queueVars, now, sessionVars>>

\* seq.splice(index, 1)
Splice(seq, index) == SubSeq(seq, 1, index - 1) \o SubSeq(seq, index + 1, Len(seq))

\* deviceManager.removeDevice(userId, deviceId, removedByDeviceId)
RemoveDevice(userId, deviceId, removedByDeviceId) ==
  /\ Len(syncLog) < MaxSyncEvents
  /\ IF userId \notin DOMAIN deviceRegistry
       THEN UNCHANGED <<deviceRegistry, deviceSyncQueue, syncLog>>
     ELSE IF FindDevice(deviceRegistry[userId], deviceId) = 0
       THEN UNCHANGED <<deviceRegistry, deviceSyncQueue, syncLog>>
     ELSE LET index == FindDevice(deviceRegistry[userId], deviceId)
              after == [deviceRegistry EXCEPT ![userId] = Splice(@, index)]
          IN /\ deviceRegistry' = after
             /\ deviceSyncQueue' = queueDeviceSync(deviceSyncQueue, userId,
                                     removedByDeviceId, "device-removed",
                                     [deviceId |-> deviceId, removedAt |-> now],
                                     now, NewSyncId)
             /\ syncLog' = Logged(after, userId, removedByDeviceId, "device-removed")
  /\ UNCHANGED <<keyRotationSchedules, dbDevices, deviceCalls, consumed>>
  /\ UNCHANGED <<queueVars, now, sessionVars>>

\* rotateKeys(userId, deviceId, newDeviceKeys, rotatedByDeviceId) up to its
\* first await: getDevice has looked the device up
RotateKeys(userId, deviceId, rotatedByDeviceId) ==
  /\ FreeCalls # {}
  /\ LET i == CHOOSE j \in FreeCalls : TRUE
     IN deviceCalls' = [deviceCalls EXCEPT ![i] =
          [kind |-> "rotate", pc |-> "lookup", userId |-> userId,
           deviceId |-> deviceId, newDeviceKeys |-> RotatedKeys(deviceId),
           rotatedByDeviceId |-> rotatedByDeviceId,
           device |-> getDevice(deviceRegistry, deviceId),
           result |-> "none"]]
  /\ UNCHANGED <<deviceRegistry, deviceSyncQueue, keyRotationSchedules, dbDevices,
                 syncLog, consumed>>
  /\ UNCHANGED <<queueVars, now, sessionVars>>

\* rotateKeys after getDevice: null gives false; otherwise the keys of the
\* object are replaced (the object may have left the registry meanwhile)
\* and the "keys-rotated" event is queued
RotateReplace(i) ==
  /\ deviceCalls[i].kind = "rotate" /\ deviceCalls[i].pc = "lookup"
  /\ LET call == deviceCalls[i]
         pl == PlaceOf(deviceRegistry, call.device)
     IN IF call.device = 0
          THEN /\ deviceCalls' = [deviceCalls EXCEPT ![i].pc = "returned",
                                                     ![i].result = "false"]
               /\ UNCHANGED <<deviceRegistry, deviceSyncQueue, syncLog>>
          ELSE /\ Len(syncLog) < MaxSyncEvents
               /\ deviceRegistry' =
                    IF pl = <<>> THEN deviceRegistry
                    ELSE WithDevice(deviceRegistry, pl,
                           [deviceRegistry[pl[1]][pl[2]] EXCEPT
                              !.publicSigningKey = call.newDeviceKeys.signingKeys.publicKey,
                              !.publicAgreementKey = call.newDeviceKeys.agreementKeys.publicKey])
               /\ deviceSyncQueue' = queueDeviceSync(deviceSyncQueue, call.userId,
                                       call.rotatedByDeviceId, "keys-rotated",
                                       [deviceId |-> call.deviceId,
                                        newPublicSigningKey |->
                                          call.newDeviceKeys.signingKeys.publicKey,
                                        newPublicAgreementKey |->
                                          call.newDeviceKeys.agreementKeys.publicKey,
                                        rotatedAt |-> now],
                                       now, NewSyncId)
               /\ syncLog' = Logged(deviceRegistry, call.userId, call.rotatedByDeviceId,
                                    "keys-rotated")
               /\ deviceCalls' = [deviceCalls EXCEPT ![i].pc = "replaced"]
  /\ UNCHANGED <<keyRotationSchedules, dbDevices, consumed>>
  /\ UNCHANGED <<queueVars, now, sessionVars>>

\* rotateKeys after queueDeviceSync: the next rotation is scheduled with the
\* default interval and the call gives true
RotateSchedule(i) ==
  /\ deviceCalls[i].kind = "rotate" /\ deviceCalls[i].pc = "replaced"
  /\ keyRotationSchedules' = scheduleKeyRotation(keyRotationSchedules,
                               deviceCalls[i].deviceId, RotationIntervalDays, now)
  /\ deviceCalls' = [deviceCalls EXCEPT ![i].pc = "returned", ![i].result = "true"]
  /\ UNCHANGED <<deviceRegistry, deviceSyncQueue, dbDevices, syncLog, consumed>>
  /\ UNCHANGED <<queueVars, now, sessionVars>>

\* the caller takes the result of rotateKeys
RotateTaken(i) ==
  /\ deviceCalls[i].kind = "rotate" /\ deviceCalls[i].pc = "returned"
  /\ deviceCalls' = [deviceCalls EXCEPT ![i] = NoCall]
  /\ UNCHANGED <<deviceRegistry, deviceSyncQueue, keyRotationSchedules, dbDevices,
                 syncLog, consumed>>
  /\ UNCHANGED <<queueVars, now, sessionVars>>

\* deviceManager.acknowledgeSyncEvent(userId, syncId), called for a device
\* that got the event from getPendingSyncEvents(userId, forDeviceId)
AcknowledgeSyncEvent(userId, syncId, forDeviceId) ==
  /\ \E k \in 1..Len(getPendingSyncEvents(deviceSyncQueue, userId, forDeviceId)) :
       getPendingSyncEvents(deviceSyncQueue, userId, forDeviceId)[k].syncId = syncId
  /\ LET syncQueue == deviceSyncQueue[userId]
         index == CHOOSE k \in 1..Len(syncQueue) : syncQueue[k].syncId = syncId
     IN deviceSyncQueue' = [deviceSyncQueue EXCEPT ![userId] = Splice(syncQueue, index)]
  /\ consumed' = consumed \cup {<<forDeviceId, syncId>>}
  /\ UNCHANGED <<deviceRegistry, keyRotationSchedules, dbDevices, deviceCalls, syncLog>>
  /\ UNCHANGED <<queueVars, now, sessionVars>>

SyncIds == 1..MaxSyncEvents

\* the users that register devices; the other user stays unknown to the registry
DeviceOwners == {"alice"}

DeviceNext ==
  \/ \E u \in DeviceOwners, d \in DeviceIds : RegisterDevice(u, d, d = "d1")
  \/ \E i \in 1..MaxDeviceCalls : RegisterStore(i)
  \/ \E i \in 1..MaxDeviceCalls : RegisterSync(i)
  \/ \E i \in 1..MaxDeviceCalls : RegisterSchedule(i)
  \/ \E u \in Users, d \in DeviceIds : VerifyDevice(u, d, "d1")
  \/ \E u \in Users, d \in DeviceIds : RemoveDevice(u, d, "d1")
  \/ \E u \in Users, d \in DeviceIds : RotateKeys(u, d, d)
  \/ \E i \in 1..MaxDeviceCalls : RotateReplace(i)
  \/ \E i \in 1..MaxDeviceCalls : RotateSchedule(i)
  \/ \E i \in 1..MaxDeviceCalls : RotateTaken(i)
  \/ \E u \in Users, e \in SyncIds :
       \E d \in {GetOrEmpty(deviceRegistry, u)[k].deviceId :
                   k \in 1..Len(GetOrEmpty(deviceRegistry, u))} :
         AcknowledgeSyncEvent(u, e, d)
  \/ \E t \in {now + 1} : Tick(t, MaxDeviceTime)

SpecDevices == Init /\ [][DeviceNext]_vars


\* the users the registry knows
RegisteredUsers == DOMAIN deviceRegistry

\* what the device manager keeps: registry, outboxes, schedules
ManagerState == <<deviceRegistry, deviceSyncQueue, keyRotationSchedules>>

\* a rotateKeys call that was made with a user id or a device id the
\* registry did not know
RotateUnknown(i) ==
  /\ deviceCalls[i].kind = "rotate"
  /\ \/ deviceCalls[i].userId \notin RegisteredUsers
     \/ deviceCalls[i].device = 0

\* C21: verifyDevice, removeDevice and rotateKeys called with a device id or
\* a user id that is not registered report not-found (null / false) and
\* leave the registry, the sync outboxes and the rotation schedules as they
\* were: no step of such a rotateKeys call changes any of the three, and the
\* call gives false
C21_UnknownIdsHaveNoEffect ==
  [][\A i \in 1..MaxDeviceCalls :
       /\ (RotateReplace(i) \/ RotateSchedule(i)) /\ RotateUnknown(i)
            => /\ UNCHANGED ManagerState
               /\ deviceCalls'[i].result = "false"
       /\ \A u \in Users, d \in DeviceIds :
            (VerifyDevice(u, d, "d1") \/ RemoveDevice(u, d, "d1"))
              /\ (u \notin RegisteredUsers \/ FindDevice(deviceRegistry[u], d) = 0)
              => UNCHANGED ManagerState]_vars


\* the device ids the registry lists for a user
DevicesOf(userId) ==
  {GetOrEmpty(deviceRegistry, userId)[i].deviceId :
     i \in 1..Len(GetOrEmpty(deviceRegistry, userId))}

\* getPendingSyncEvents(userId, forDeviceId) holds the event syncId
Obtainable(userId, forDeviceId, syncId) ==
  \E k \in 1..Len(getPendingSyncEvents(deviceSyncQueue, userId, forDeviceId)) :
    getPendingSyncEvents(deviceSyncQueue, userId, forDeviceId)[k].syncId = syncId

\* C22: every sync event recorded for a user stays obtainable through
\* getPendingSyncEvents by each other device of that user (the devices the
\* user had, besides the source, when the event was recorded and that are
\* still registered) until that device itself has acknowledged it; an
\* acknowledgment by another device does not take it away
C22_EventAvailableUntilConsumed ==
  \A k \in 1..Len(syncLog) :
    \A d \in syncLog[k].audience \cap DevicesOf(syncLog[k].userId) :
      <<d, syncLog[k].syncId>> \notin consumed
        => Obtainable(syncLog[k].userId, d, syncLog[k].syncId)


\* the device manager next to a session of runtime p1: the devices of one
\* user are registered, removed and rotated while the session is established
RotateNext ==
  \/ Handshake("p1", GenuineBundle("p2"), TRUE, "r1", "r2")
  \/ \E d \in Devices : RegisterDevice("alice", d, d = "d1")
  \/ \E i \in 1..MaxDeviceCalls : RegisterStore(i)
  \/ \E i \in 1..MaxDeviceCalls : RegisterSync(i)
  \/ \E i \in 1..MaxDeviceCalls : RegisterSchedule(i)
  \/ \E d \in Devices : RemoveDevice("alice", d, "d1")
  \/ \E d \in Devices : RotateKeys("alice", d, d)
  \/ \E i \in 1..MaxDeviceCalls : RotateReplace(i)
  \/ \E i \in 1..MaxDeviceCalls : RotateSchedule(i)
  \/ \E i \in 1..MaxDeviceCalls : RotateTaken(i)
  \/ \E t \in {now + 1} : Tick(t, MaxDeviceTime)

SpecRotate == Init /\ [][RotateNext]_vars

\* the DeviceInfo object oid, while the registry holds it
DeviceObject(registry, oid) ==
  registry[PlaceOf(registry, oid)[1]][PlaceOf(registry, oid)[2]]

InvertEvolution(chainKey) ==
  LET text == FromBase64(chainKey)
  IN IF Len(text) >= 2 /\ text[Len(text) - 1] = ":evolved:"
       THEN SubSeq(text, 1, Len(text) - 2)
       ELSE <<>>

\* C23: the advance of the chain key is one-way: whenever a session's chain
\* key is replaced (encryptMessage, rekeySession), the chain key it held
\* before is not what the publicly known inverse of the evolution function
\* gives for the new one
C23_ChainKeyAdvanceOneWay ==
  [][\A p \in Procs, o \in 1..HeapSize :
       /\ heap[p][o].state # "none" /\ heap'[p][o].state # "none"
       /\ heap'[p][o].sessionKey.chainKey # heap[p][o].sessionKey.chainKey
       => InvertEvolution(heap'[p][o].sessionKey.chainKey) # heap[p][o].sessionKey.chainKey]_vars


-----------------------------------------------------------------------------
(***************************************************************************)
(* Receipts (messagePipeline.processDeliveryReceipt, processReadReceipt).  *)
(***************************************************************************)

\* the read receipts stored in one behaviour
MaxReceipts == 2

\* where the message with this id is in db.messages of runtime p:
\* <<conversation, index>>, <<>> when no list holds it (the ids are UUIDs,
\* so one list holds it at most)
FindMessage(p, messageId) ==
  LET places == {<<c, k>> \in (DOMAIN db[p]) \X (1..MaxOutgoing) :
                   k <= Len(db[p][c]) /\ db[p][c][k].messageId = messageId}
  IN IF places = {} THEN <<>> ELSE CHOOSE pl \in places : TRUE

\* message.status = status for the message found, if any
SetStatus(p, messageId, status) ==
  LET pl == FindMessage(p, messageId)
  IN IF pl = <<>> THEN db
     ELSE [db EXCEPT ![p][pl[1]][pl[2]].status = status]

\* messagePipeline.processDeliveryReceipt: no await before its end
ProcessDeliveryReceipt(p, messageId) ==
  /\ db' = SetStatus(p, messageId, "delivered")
  /\ UNCHANGED <<sessionStore, heap, tasks, network, accepted, handshakes, completed,
                 pipeline, receipts>>
  /\ UNCHANGED <<queueVars, now, deviceVars>>

\* the receipts stored for runtime p
ReceiptCount(p) == Cardinality({<<m, k>> \in (DOMAIN receipts[p]) \X (1..MaxReceipts) :
                                  k <= Len(receipts[p][m])})

\* db.storeReceipt
storeReceipt(stored, receipt) ==
  MapSet(stored, receipt.messageId,
         Append(IF receipt.messageId \in DOMAIN stored
                  THEN stored[receipt.messageId] ELSE <<>>,
                receipt))

\* messagePipeline.processReadReceipt up to the await of db.storeReceipt:
\* the receipt is stored
ProcessReadReceipt(p, messageId, readBy, deviceId) ==
  /\ FreeSlots # {}
  /\ ReceiptCount(p) < MaxReceipts
  /\ receipts' = [receipts EXCEPT ![p] =
       storeReceipt(@, [messageId |-> messageId, readBy |-> readBy,
                        deviceId |-> deviceId, timestamp |-> now])]
  /\ tasks' = [tasks EXCEPT ![NewSlot] =
       [kind |-> "readReceipt", proc |-> p, obj |-> 0, pc |-> "stored",
        messageId |-> messageId]]
  /\ UNCHANGED <<sessionStore, heap, network, accepted, handshakes, completed,
                 pipeline, db>>
  /\ UNCHANGED <<queueVars, now, deviceVars>>

\* processReadReceipt after db.storeReceipt: the message is marked read
ReadReceiptMark(i) ==
  /\ tasks[i].kind = "readReceipt" /\ tasks[i].pc = "stored"
  /\ db' = SetStatus(tasks[i].proc, tasks[i].messageId, "read")
  /\ tasks' = [tasks EXCEPT ![i] = Idle]
  /\ UNCHANGED <<sessionStore, heap, network, accepted, handshakes, completed,
                 pipeline, receipts>>
  /\ UNCHANGED <<queueVars, now, deviceVars>>

\* the plaintexts that pass validateMessage
ValidPlaintexts(p) ==
  {pt \in Plaintexts(p) : pt.conversationId = "c1" /\ pt.content = TextOfLength("hi", 2)}

\* the ids of the messages stored in one behaviour, and one that is not
StoredIds == 1..(MaxOutgoing + 1)

\* runtime p1 sends to its peer and takes the receipts that come back, in
\* any order
ReceiptNext ==
  \/ Handshake("p1", GenuineBundle("p2"), TRUE, "r1", "r2")
  \/ \E plaintext \in ValidPlaintexts("p1") : ProcessOutgoingMessage("p1", plaintext)
  \/ \E i \in 1..MaxTasks : OutgoingValidated(i)
  \/ \E i \in 1..MaxTasks : OutgoingSession(i)
  \/ \E i \in 1..MaxTasks : OutgoingEvolve(i)
  \/ \E i \in 1..MaxTasks : OutgoingSeal(i, "r1")
  \/ \E i \in 1..MaxTasks : OutgoingEncrypted(i)
  \/ \E i \in 1..MaxTasks : OutgoingQueue(i)
  \/ \E i \in 1..MaxTasks : OutgoingSend(i)
  \/ \E i \in 1..MaxTasks : OutgoingSent(i)
  \/ \E i \in 1..MaxTasks : OutgoingTaken(i)
  \/ \E m \in StoredIds : ProcessDeliveryReceipt("p1", m)
  \/ \E m \in StoredIds : ProcessReadReceipt("p1", m, "bob", "d2")
  \/ \E i \in 1..MaxTasks : ReadReceiptMark(i)

SpecReceipts == Init /\ [][ReceiptNext]_vars

\* how far along pending -> sent -> delivered -> read a status is
StatusRank(status) ==
  CASE status = "pending" -> 0
    [] status = "sent" -> 1
    [] status = "delivered" -> 2
    [] status = "read" -> 3

\* C24: the stored status of a message only moves forward along
\* pending -> sent -> delivered -> read, whatever the order of the
\* processDeliveryReceipt and processReadReceipt calls for it
C24_StatusOnlyMovesForward ==
  [][\A m \in StoredIds :
       FindMessage("p1", m) # <<>>
         => LET pl == FindMessage("p1", m)
            IN StatusRank(db'["p1"][pl[1]][pl[2]].status)
                 >= StatusRank(db["p1"][pl[1]][pl[2]].status)]_vars


-----------------------------------------------------------------------------
(***************************************************************************)
(* Draining for two recipients.                                            *)
(***************************************************************************)

\* the messages queued in one behaviour with two recipients
MaxDrainMessages == 2

\* the clock of these behaviours: the first retry is due after 2000 ms
MaxDrainTime == 2000

\* one message per recipient is queued; sends fail or succeed, time passes,
\* and processPendingMessages(userId) is called for either recipient
DrainNext ==
  \/ \E u \in Users : u \notin DOMAIN state.messages /\ QueueMessageWithin(u, MaxDrainMessages)
  \/ \E a \in BagToSet(inflight), draw \in BOOLEAN : AttemptComplete(a, draw, 0)
  \/ DrainResume
  \/ \E u \in Users : ProcessPendingMessages(u)
  \/ \E t \in DueTimes : Tick(t, MaxDrainTime)

SpecDrain == Init /\ [][DrainNext]_vars

\* the pending entries of the user that are due and not being sent
DuePending(userId) ==
  {k \in 1..Len(UserMessages(state, userId)) :
     /\ UserMessages(state, userId)[k].status = "pending"
     /\ UserMessages(state, userId)[k].nextRetryTime <= now
     /\ UserMessages(state, userId)[k].attempts < UserMessages(state, userId)[k].maxRetries
     /\ AttemptsInFlight(UserMessages(state, userId)[k].id) = 0}

\* C25: while a drain for userA is in progress and the manager is online, a
\* processPendingMessages(userB) call for another recipient is not skipped:
\* it starts a send for the first due pending entry of userB
C25_DrainsRunConcurrently ==
  \A uA \in Users, uB \in Users :
    /\ uA # uB
    /\ drain.active /\ drain.users = <<uA>>
    /\ state.isOnline
    /\ DuePending(uB) # {}
    => LET w == ProcessPendingSync(World, uB, now)
       IN \E k \in DuePending(uB) :
            w.state.messages[uB][k].attempts = state.messages[uB][k].attempts + 1


\* C26: when the transport rejects a send attempt of a message, the time to
\* its next retry is min(1000 ms * 2^k, 60000 ms) plus a jitter in
\* [0, 1000 ms), where k counts the failures the message had before (the
\* first failure uses the base delay of 1 s); the delays of one message
\* are therefore non-decreasing and stay within the cap plus jitter
C26_BackoffStartsAtBaseDelay ==
  [][\A m \in DOMAIN failures :
       (m \in DOMAIN failures' /\ failures'[m] = failures[m] + 1)
         => LET delay == MessageWithId(state', m).nextRetryTime - now
                backoff == Min(1000 * Pow2(failures[m]), 60000)
            IN /\ delay >= backoff
               /\ delay < backoff + 1000
               /\ delay < 60000 + 1000]_vars


\* C28: every encryptMessage call that returns an envelope has increased the
\* message counter of its session by exactly 1, and the envelope carries the
\* value the counter has after that increment; so the envelopes a session
\* produces one after another carry strictly increasing counters
C28_EnvelopeCarriesNewCounter ==
  [][\A i \in 1..MaxTasks :
       (EncryptReturn(i) /\ heap'[tasks[i].proc][tasks[i].obj].state # "none")
         => LET before == heap[tasks[i].proc][tasks[i].obj].sessionKey.messageCounter
                after == heap'[tasks[i].proc][tasks[i].obj].sessionKey.messageCounter
            IN /\ after = before + 1
               /\ tasks[i].encrypted.messageCounter = after]_vars


\* C29: a queued message gets status delivered only when its status was
\* sent: markDelivered on a pending or failed message does not make it
\* delivered
C29_DeliveredOnlyFromSent ==
  [][\A m \in MessageIds :
       (~HasStatus(state, m, "delivered") /\ HasStatus(state', m, "delivered"))
         => HasStatus(state, m, "sent")]_vars


-----------------------------------------------------------------------------
(***************************************************************************)
(* Rejected envelopes.                                                     *)
(***************************************************************************)

\* a ciphertext that was damaged on the way: not the base64 text of a payload
Damaged == <<"damaged">>

\* an envelope reaches the recipient with its ciphertext damaged; whoever
\* damaged it may have set the messageCounter as well
Corrupt(n, counter) ==
  /\ n \in network
  /\ n.envelope.ciphertext # Damaged
  /\ Cardinality(network) <= MaxEnvelopes
  /\ network' = network \cup
       {[n EXCEPT !.envelope.ciphertext = Damaged, !.envelope.messageCounter = counter]}
  /\ UNCHANGED <<sessionStore, heap, tasks, accepted, handshakes, completed>>
  /\ UNCHANGED <<queueVars, now, outVars, deviceVars>>

\* runtime p1 sends, runtime p2 receives what arrives: fresh envelopes,
\* envelopes presented again and damaged ones; each call is awaited
RejectNext ==
  \/ /\ InProgress = {}
     /\ \E p \in Procs : Handshake(p, GenuineBundle(PeerOf(p)), p = "p1", "r1", "r2")
  \/ /\ InProgress = {}
     /\ \E content \in Contents : EncryptMessage("p1", content)
  \/ \E i \in 1..MaxTasks : EncryptEvolve(i)
  \/ \E i \in 1..MaxTasks : EncryptSeal(i, "r1")
  \/ \E i \in 1..MaxTasks : EncryptReturn(i)
  \/ \E n \in network, c \in 1..(MaxCounter + 1) : Corrupt(n, c)
  \/ /\ InProgress = {}
     /\ \E n \in network : DecryptMessage("p2", n)
  \/ \E i \in 1..MaxTasks : DecryptReturn(i)
  \/ \E t \in {now + 1} : Tick(t, MaxSessionTime)

SpecReject == Init /\ [][RejectNext]_vars

\* decryptMessage of runtime p rejects the envelope: the replay test fails
\* or the text does not parse
Rejects(p, encrypted) ==
  \/ ReplayDetected(encrypted, heap[p][SessionAt(p)])
  \/ DecryptedContent(encrypted, heap[p][SessionAt(p)]).null

-----------------------------------------------------------------------------
(***************************************************************************)
(* queueMessage seen from its caller.                                      *)
(***************************************************************************)

\* the messages queued in one behaviour, to either recipient
MaxEnqueued == 2

\* messages are queued online and offline; the sends they start end
EnqueueNext ==
  \/ \E u \in Users : QueueMessageWithin(u, MaxEnqueued)
  \/ \E a \in BagToSet(inflight), draw \in BOOLEAN : AttemptComplete(a, draw, 0)
  \/ GoOnline
  \/ GoOffline
  \/ DrainResume

SpecEnqueue == Init /\ [][EnqueueNext]_vars

\* the entry queueMessage has just pushed on the list of userId
LastQueued(st, userId) == st.messages[userId][Len(st.messages[userId])]

\* the list of userId after the step is the list before it with one entry
\* more, whose id is new
OneAppended(userId) ==
  /\ userId \in DOMAIN state'.messages
  /\ Len(state'.messages[userId]) = Len(UserMessages(state, userId)) + 1
  /\ SubSeq(state'.messages[userId], 1, Len(UserMessages(state, userId)))
       = UserMessages(state, userId)
  /\ LastQueued(state', userId).id = nextId
  /\ \A v \in DOMAIN state.messages \ {userId} :
       state'.messages[v] = state.messages[v]

\* the send attempts in flight for the message in a bag of attempts
SendsFor(attempts, messageId) ==
  LET for == {a \in BagToSet(attempts) : a.messageId = messageId}
  IN BagCardinality([a \in for |-> CopiesIn(a, attempts)])

\* C31 as stated: queueMessage appends exactly one entry with attempts = 0,
\* status = pending, nextRetryTime = now and maxRetries = 5, and that is the
\* state of the message when the call yields to its caller
C31_QueuedInInitialState ==
  [][\A u \in Users :
       QueueMessageWithin(u, MaxEnqueued)
         => /\ OneAppended(u)
            /\ LastQueued(state', u).attempts = 0
            /\ LastQueued(state', u).status = "pending"
            /\ LastQueued(state', u).nextRetryTime = now
            /\ LastQueued(state', u).maxRetries = 5]_vars

\* C31, amended: queueMessage appends exactly one entry with status =
\* pending, nextRetryTime = now and maxRetries = 5 and a pending delivery
\* record; offline the entry has attempts = 0 and no send is started; online
\* the first send attempt is started before queueMessage yields, so the
\* entry has attempts = 1 and one send in flight from then on
C31_QueuedAndSentIfOnline ==
  [][\A u \in Users :
       QueueMessageWithin(u, MaxEnqueued)
         => /\ OneAppended(u)
            /\ LastQueued(state', u).status = "pending"
            /\ LastQueued(state', u).nextRetryTime = now
            /\ LastQueued(state', u).maxRetries = 5
            /\ state'.deliveryStatus[nextId].status = "pending"
            /\ state'.deliveryStatus[nextId].retries = 0
            /\ IF state.isOnline
                 THEN /\ LastQueued(state', u).attempts = 1
                      /\ SendsFor(inflight', nextId) = 1
                 ELSE /\ LastQueued(state', u).attempts = 0
                      /\ SendsFor(inflight', nextId) = 0]_vars

\* a recipient's list holds two messages, the first queued online with its
\* first send in flight, the second queued offline and in its initial state
C31_Witness ==
  \E u \in DOMAIN state.messages :
    /\ Len(state.messages[u]) = 2
    /\ state.messages[u][1].attempts = 1 /\ state.messages[u][1].status = "pending"
    /\ AttemptsInFlight(state.messages[u][1].id) = 1
    /\ state.messages[u][2].attempts = 0 /\ state.messages[u][2].status = "pending"
    /\ state.messages[u][2].nextRetryTime = now
    /\ AttemptsInFlight(state.messages[u][2].id) = 0


----------------------------------------------------------------------------
(***************************************************************************)
(* processMessage called on messages that are done or not yet due: two     *)
(* messages, direct calls, failed sends and the passing of time.           *)
(***************************************************************************)
DeferNext ==
  \/ \E u \in Users : QueueMessageWithin(u, MaxEnqueued)
  \/ \E u \in Users, m \in 1..MaxEnqueued : ProcessMessage(u, m)
  \/ \E a \in BagToSet(inflight), draw \in BOOLEAN : AttemptComplete(a, draw, 0)
  \/ \E m \in 1..MaxEnqueued : MarkDelivered(m)
  \/ GoOffline
  \/ \E t \in DueTimes : Tick(t, MaxDrainTime)

SpecDefer == Init /\ [][DeferNext]_vars

\* processMessage returns at one of its first two `return`s after the lookup
DoneOrDeferred(message, t) ==
  \/ message.status \in {"sent", "delivered"}
  \/ message.nextRetryTime > t

\* C32: processMessage on a message that is already sent or delivered, or
\* whose nextRetryTime is still in the future, is a no-op: it starts no send
\* attempt and leaves the whole queue state (attempts, status, nextRetryTime,
\* the delivery-status records) and the stored copy as they were; it returns
\* true for a sent or delivered message and false for a deferred one
C32_NoOpWhenDoneOrDeferred ==
  \A u \in DOMAIN state.messages :
    \A i \in 1..Len(state.messages[u]) :
      LET message == state.messages[u][i]
          r == ProcessMessageSync(state, localStorage, u, message.id, now)
      IN DoneOrDeferred(message, now) =>
           /\ ~r.started
           /\ r.state = state
           /\ r.localStorage = localStorage
           /\ r.result = (message.status \in {"sent", "delivered"})

\* one message has been sent, another has failed once and waits for its
\* retry time, and nothing is in flight
C32_Witness ==
  /\ BagCardinality(inflight) = 0
  /\ \E m1, m2 \in AllMessages(state) :
       /\ m1.status = "sent"
       /\ m2.status = "pending" /\ m2.attempts = 1 /\ m2.nextRetryTime > now


----------------------------------------------------------------------------
(***************************************************************************)
(* rekeySession: its effect on the session it names.                       *)
(***************************************************************************)

\* the session records of runtime p other than the one stored under sessionId
OtherSessions(st, hp, p, sessionId) ==
  [k \in DOMAIN st[p] \ {sessionId} |-> hp[p][st[p][k]]]

\* C33: rekeySession on an existing session replaces its chain key with the
\* evolved value (the value evolveChainKey returned for the chain key the
\* call read) and sets state to rekeying, and leaves its message counter,
\* shared secret and session id as they were, stores it under that id, and
\* touches no other session; for a sessionId the store does not hold, the
\* call ends at its first return: no rekeying is started and no session
\* changes
C33_RekeyReplacesChainKeyOnly ==
  /\ [](\A p \in Procs :
          NoSessionAt(p) => ~ENABLED RekeySession(p, SessionIdAt(p)))
  /\ [][/\ \A p \in Procs :
             RekeySession(p, SessionIdAt(p))
               => /\ ~NoSessionAt(p)
                  /\ UNCHANGED <<sessionStore, heap>>
                  /\ \E i \in FreeSlots :
                       /\ tasks'[i].obj = sessionStore[p][SessionIdAt(p)]
                       /\ tasks'[i].newChainKey =
                            evolveChainKey(heap[p][tasks'[i].obj].sessionKey.chainKey, now)
        /\ \A i \in 1..MaxTasks :
             RekeyReturn(i)
               => LET p == tasks[i].proc
                      sessionId == tasks[i].sessionId
                      before == heap[p][tasks[i].obj]
                      after == heap'[p][tasks[i].obj]
                  IN /\ after.sessionKey.chainKey = tasks[i].newChainKey
                     /\ after.sessionKey.chainKey # before.sessionKey.chainKey
                     /\ after.state = "rekeying"
                     /\ after.sessionKey.messageCounter = before.sessionKey.messageCounter
                     /\ after.sessionKey.sharedSecret = before.sessionKey.sharedSecret
                     /\ after.x3dhData = before.x3dhData
                     /\ after.sessionId = before.sessionId
                     /\ after.sessionId = sessionId
                     /\ sessionStore'[p][sessionId] = tasks[i].obj
                     /\ OtherSessions(sessionStore', heap', p, sessionId)
                          = OtherSessions(sessionStore, heap, p, sessionId)
                     /\ sessionStore'[PeerOf(p)] = sessionStore[PeerOf(p)]
                     /\ heap'[PeerOf(p)] = heap[PeerOf(p)]]_vars

\* a runtime that had accepted a message (its session's counter is 1) has
\* rekeyed: the session is rekeying, its chain key was evolved once, and the
\* counter is still 1
C33_Witness ==
  /\ InProgress = {}
  /\ \E p \in Procs :
       /\ SessionAt(p) # 0
       /\ LET session == heap[p][sessionStore[p][SessionIdAt(p)]]
          IN /\ session.state = "rekeying"
             /\ Evolutions(session.sessionKey.chainKey) = 1
             /\ session.sessionKey.messageCounter = 1


----------------------------------------------------------------------------
(***************************************************************************)
(* processPendingMessages when processMessage throws.  processMessage      *)
(* catches the rejection of its send, but its catch block and its success  *)
(* path end with saveToStorage, and localStorage.setItem throws when the    *)
(* quota is used up: that exception leaves processMessage and reaches the  *)
(* try/finally of the drain that awaited it.                               *)
(***************************************************************************)
StorageError == "QuotaExceededError"

\* processMessage after its await when every saveToStorage call throws: a
\* rejected send runs the catch block; a resolved send runs the success path
\* up to saveToStorage and then the catch block with the storage error
OnStorageThrows(st, userId, idx, t, jitter, rejected) ==
  IF rejected
    THEN OnSendRejected(st, userId, idx, t, jitter)
    ELSE LET st1 == OnSendRejected(OnSendResolved(st, userId, idx), userId, idx, t, jitter)
             messageId == st.messages[userId][idx].id
             st2 == [st1 EXCEPT !.messages[userId][idx].error = StorageError]
         IN IF messageId \in DOMAIN st2.deliveryStatus
              THEN [st2 EXCEPT !.deliveryStatus[messageId].error = StorageError]
              ELSE st2

\* the same call of processPendingMessages without its finally block
AttemptThrows_Off(a, draw, jitter) ==
  /\ BagIn(a, inflight)
  /\ a.userId \in DOMAIN state.messages
  /\ LET idx == FindIndex(state.messages[a.userId], a.messageId)
         message == state.messages[a.userId][idx]
         st1 == OnStorageThrows(state, a.userId, idx, now, jitter,
                                TransportRejects(message, draw))
     IN /\ idx # 0
        /\ state' = st1
        /\ failures' = IF TransportRejects(message, draw)
                         THEN [failures EXCEPT ![a.messageId] = @ + 1]
                         ELSE failures
  /\ inflight' = RemoveAttempt(inflight, a)
  /\ drain' = IF a.owner = "drain" THEN NoDrain ELSE drain
  /\ UNCHANGED <<localStorage, nextId, now>>
  /\ UNCHANGED <<sessionVars, deviceVars>>

\* the transport timer of an in-flight attempt fires and saveToStorage throws:
\* processMessage rejects; a drain that awaited it leaves its loops and runs
\* its finally block
AttemptThrows(a, draw, jitter) ==
  /\ BagIn(a, inflight)
  /\ a.userId \in DOMAIN state.messages
  /\ LET idx == FindIndex(state.messages[a.userId], a.messageId)
         message == state.messages[a.userId][idx]
         st1 == OnStorageThrows(state, a.userId, idx, now, jitter,
                                TransportRejects(message, draw))
     IN /\ idx # 0
        /\ state' = IF a.owner = "drain"
                      THEN [st1 EXCEPT !.syncInProgress = FALSE]
                      ELSE st1
        /\ failures' = IF TransportRejects(message, draw)
                         THEN [failures EXCEPT ![a.messageId] = @ + 1]
                         ELSE failures
  /\ inflight' = RemoveAttempt(inflight, a)
  /\ drain' = IF a.owner = "drain" THEN NoDrain ELSE drain
  /\ UNCHANGED <<localStorage, nextId, now>>
  /\ UNCHANGED <<sessionVars, deviceVars>>

\* messages are queued while offline, so every send is made by a drain; the
\* drains are started by the online listener and by direct calls
ThrowNext ==
  \/ \E u \in Users : ~state.isOnline /\ QueueMessageWithin(u, MaxEnqueued)
  \/ \E a \in BagToSet(inflight), draw \in BOOLEAN : AttemptComplete(a, draw, 0)
  \/ \E a \in BagToSet(inflight), draw \in BOOLEAN : AttemptThrows(a, draw, 0)
  \/ DrainResume
  \/ \E sel \in Users \cup {"all"} : ProcessPendingMessages(sel)
  \/ GoOnline
  \/ GoOffline
  \/ \E t \in DueTimes : Tick(t, MaxDrainTime)

SpecThrow == Init /\ [][ThrowNext]_vars

\* C34: in every state where no drain is running syncInProgress is false,
\* and every step that ends a drain, by reaching the end of its loops or by
\* an exception out of the processMessage call it awaited, leaves the flag
\* false; so the first test of a later processPendingMessages call passes
C34_FlagClearWhenNoDrain ==
  /\ [](~drain.active => ~state.syncInProgress)
  /\ [][(drain.active /\ ~drain'.active) => ~state'.syncInProgress]_vars

\* a drain was ended by an exception (the message it was sending carries the
\* storage error), and a later drain went through to its end
C34_Witness ==
  /\ ~drain.active
  /\ ~state.syncInProgress
  /\ state.lastSyncTime > 0
  /\ \E m \in AllMessages(state) : m.error = StorageError


----------------------------------------------------------------------------
(***************************************************************************)
(* The delivery-status records against the messages.                       *)
(***************************************************************************)

\* C35: for every queued message that has a delivery-status record, whenever
\* no send attempt for it is in flight the record agrees with the message:
\* record.status equals the message's status and record.retries equals the
\* message's attempts
C35_RecordAgreesWithMessage ==
  \A m \in AllMessages(state) :
    (m.id \in DOMAIN state.deliveryStatus /\ AttemptsInFlight(m.id) = 0)
      => /\ state.deliveryStatus[m.id].status = m.status
         /\ state.deliveryStatus[m.id].retries = m.attempts


----------------------------------------------------------------------------
(***************************************************************************)
(* Persistence: what saveToStorage writes, what loadFromStorage makes of   *)
(* it, and a restart of the client.                                        *)
(***************************************************************************)
Absent == "absent"

\* the optional properties of QueuedMessage and DeliveryStatus the model keeps
OptionalProperties == {"error"}

\* JSON.stringify of an object: a property whose value is undefined is left out
StringifyObject(obj) ==
  [f \in DOMAIN obj |->
     IF f \in OptionalProperties /\ obj[f] = Undefined THEN Absent ELSE obj[f]]

\* JSON.parse of that text, as the code reads it: a property that is not
\* there reads as undefined
ParseObject(json) ==
  [f \in DOMAIN json |->
     IF f \in OptionalProperties /\ json[f] = Absent THEN Undefined ELSE json[f]]

\* JSON.stringify(serialized) of saveToStorage for the item it stored:
\* messages as the array of {userId, messages} in the order of the Map,
\* deliveryStatus as the array of [id, status] pairs in the order of the Map
\* (records are inserted by queueMessage, in the order of the ids)
Serialized(item) ==
  LET keys == KeysInOrder(item, DOMAIN item.messages)
  IN [messages |->
        [i \in 1..Len(keys) |->
           [userId |-> keys[i],
            messages |-> [k \in 1..Len(item.messages[keys[i]]) |->
                            StringifyObject(item.messages[keys[i]][k])]]],
      deliveryStatus |->
        [i \in 1..Len(item.deliveryStatus) |->
           <<i, StringifyObject(item.deliveryStatus[i])>>],
      lastSyncTime |-> item.lastSyncTime]

\* messages.clear() and the forEach of loadFromStorage over data.messages
RECURSIVE SetEach(_, _)
SetEach(map, entries) ==
  IF entries = <<>> THEN map
  ELSE SetEach(MapSet(map, Head(entries)[1], Head(entries)[2]), Tail(entries))

\* loadFromStorage without the delivery-status records
loadFromStorage_Off(st, ls) ==
  IF ls = NoItem THEN st
  ELSE LET data == Serialized(ls)
           lists == [i \in 1..Len(data.messages) |->
                       <<data.messages[i].userId,
                         [k \in 1..Len(data.messages[i].messages) |->
                            ParseObject(data.messages[i].messages[k])]>>]
       IN [st EXCEPT !.messages = SetEach(<<>>, lists),
                     !.deliveryStatus = <<>>,
                     !.lastSyncTime = data.lastSyncTime]

\* loadFromStorage: nothing stored, nothing changes; otherwise the two Maps
\* are cleared and filled from the parsed arrays and lastSyncTime is taken
\* over (data.lastSyncTime || 0)
loadFromStorage(st, ls) ==
  IF ls = NoItem THEN st
  ELSE LET data == Serialized(ls)
           lists == [i \in 1..Len(data.messages) |->
                       <<data.messages[i].userId,
                         [k \in 1..Len(data.messages[i].messages) |->
                            ParseObject(data.messages[i].messages[k])]>>]
           records == [i \in 1..Len(data.deliveryStatus) |->
                         <<data.deliveryStatus[i][1],
                           ParseObject(data.deliveryStatus[i][2])>>]
       IN [st EXCEPT !.messages = SetEach(<<>>, lists),
                     !.deliveryStatus = SetEach(<<>>, records),
                     !.lastSyncTime = data.lastSyncTime]

\* the state of the module when it is loaded: the literal of
\* offlineQueueManager.state
FreshState ==
  [messages |-> <<>>, deliveryStatus |-> <<>>, isOnline |-> TRUE,
   syncInProgress |-> FALSE, lastSyncTime |-> 0]

\* the page is reloaded: the module starts from its literal, initialize calls
\* loadFromStorage, and the timers and calls of the old page are gone
Restart ==
  /\ state' = loadFromStorage(FreshState, localStorage)
  /\ inflight' = EmptyBag
  /\ drain' = NoDrain
  /\ UNCHANGED <<localStorage, nextId, now, failures>>
  /\ UNCHANGED <<sessionVars, deviceVars>>

\* the transport rejects a message at most once between two retryMessage
\* calls; markDelivered and retryMessage are called for the first message,
\* between sends
RestartNext ==
  \/ \E u \in Users : QueueMessageWithin(u, MaxEnqueued)
  \/ \E a \in BagToSet(inflight), draw \in BOOLEAN :
       /\ draw => failures[a.messageId] = 0
       /\ AttemptComplete(a, draw, 0)
  \/ inflight = EmptyBag /\ MarkDelivered(1)
  \/ inflight = EmptyBag /\ RetryMessage(1)
  \/ DrainResume
  \/ ProcessPendingMessages("all")
  \/ Tick(MaxDrainTime, MaxDrainTime)
  \/ Restart

SpecRestart == Init /\ [][RestartNext]_vars

\* what a restart has to bring back
Persisted(st) ==
  [messages |-> st.messages, order |-> KeysInOrder(st, DOMAIN st.messages),
   deliveryStatus |-> st.deliveryStatus, lastSyncTime |-> st.lastSyncTime]

\* C36: loadFromStorage applied to what saveToStorage wrote restores the
\* per-user message lists (and the order of the users), the delivery-status
\* map and lastSyncTime to exactly the saved values; and every operation
\* that changes a message's status, attempts or nextRetryTime has saved the
\* new state by the time it completes: whenever no send is in flight, and
\* after every step that changes the queue without leaving a send in
\* flight, a restart brings back the state as it is
C36_SurvivesRestart ==
  /\ [](/\ Persisted(loadFromStorage(FreshState, saveToStorage(state))) = Persisted(state)
        /\ inflight = EmptyBag
             => Persisted(loadFromStorage(FreshState, localStorage)) = Persisted(state))
  /\ [][(state' # state /\ BagCardinality(inflight') <= BagCardinality(inflight)
           /\ Persisted(state') # Persisted(state))
          => Persisted(loadFromStorage(FreshState, localStorage')) = Persisted(state')]_vars

\* two recipients; the first message was sent and retried and the retry has
\* failed; a drain has completed since; nothing is in flight, and the stored
\* item holds the failed retry and the time of the drain
C36_Witness ==
  /\ inflight = EmptyBag
  /\ localStorage # NoItem
  /\ Len(KeysInOrder(state, DOMAIN state.messages)) = 2
  /\ localStorage.lastSyncTime > 0
  /\ \E m \in AllMessages(localStorage) :
       /\ m.id = 1 /\ m.status = "pending" /\ m.attempts = 1
       /\ m.error = "Network timeout"
       /\ localStorage.deliveryStatus[m.id].status = "sent"


----------------------------------------------------------------------------
(***************************************************************************)
(* The session id as a function of the two endpoints.                      *)
(***************************************************************************)

\* the unordered pair of (userId, deviceId) endpoints a session is between
EndpointsOf(pp) ==
  {<<pp.userId1, pp.deviceId1>>, <<pp.userId2, pp.deviceId2>>}

\* C37: the canonical session id is injective on unordered pairs of
\* (userId, deviceId) endpoints: two different pairs of endpoints never map
\* to the same session id, and so the session a lookup for a pair of
\* endpoints finds is one that was established between these endpoints
C37_SessionIdInjective ==
  /\ \A pp \in PartyPairs :
       LET o == getOrCreateSession("p1", pp.userId1, pp.deviceId1, pp.userId2, pp.deviceId2)
       IN o # 0 => EndpointsOf(heap["p1"][o]) = EndpointsOf(pp)
  /\ \A pp1, pp2 \in PartyPairs :
       SessionIdOf(pp1.userId1, pp1.deviceId1, pp1.userId2, pp1.deviceId2)
           = SessionIdOf(pp2.userId1, pp2.deviceId1, pp2.userId2, pp2.deviceId2)
         => EndpointsOf(pp1) = EndpointsOf(pp2)


----------------------------------------------------------------------------
(***************************************************************************)
(* getDeviceSyncStats.  Its clock reading is passed in as whole days plus  *)
(* milliseconds, like the times PlusDays makes: the schedules fall due 30  *)
(* days after they were made, later than the integers of the checker allow *)
(* a millisecond clock to run.                                             *)
(***************************************************************************)
MaxStatDays == 31

\* Date.now() >= s.nextRotation, both as days and milliseconds
NotBefore(time, other) ==
  \/ time.days > other.days
  \/ time.days = other.days /\ time.ms >= other.ms

\* deviceManager.getDeviceSyncStats(userId), read at the given time
getDeviceSyncStats(userId, time) ==
  LET devices == GetOrEmpty(deviceRegistry, userId)
      syncQueue == GetOrEmpty(deviceSyncQueue, userId)
  IN [totalDevices |-> Len(devices),
      verifiedDevices |-> Len(SelectSeq(devices, LAMBDA d : d.verified)),
      unverifiedDevices |-> Len(SelectSeq(devices, LAMBDA d : ~d.verified)),
      pendingSyncEvents |-> Len(syncQueue),
      devicesRequiringRotation |->
        Cardinality({d \in DOMAIN keyRotationSchedules :
                       NotBefore(time, keyRotationSchedules[d].nextRotation)})]

\* the devices that are in some user's list
InRegistry == {d \in DeviceIds : getDevice(deviceRegistry, d) # 0}

\* C38: a user's device list contains at most one entry for any deviceId,
\* and a removed device no longer has a key-rotation schedule counted by
\* getDeviceSyncStats: at any later time the count is that of the listed
\* devices whose rotation is due
C38_ListsAndSchedulesAgree ==
  /\ \A u \in DOMAIN deviceRegistry : \A d \in DeviceIds :
       Cardinality({k \in 1..Len(deviceRegistry[u]) :
                      deviceRegistry[u][k].deviceId = d}) <= 1
  /\ \A u \in Users : \A days \in 1..MaxStatDays :
       getDeviceSyncStats(u, [days |-> days, ms |-> 0]).devicesRequiringRotation
         = Cardinality({d \in InRegistry :
                          /\ d \in DOMAIN keyRotationSchedules
                          /\ NotBefore([days |-> days, ms |-> 0],
                                       keyRotationSchedules[d].nextRotation)})


----------------------------------------------------------------------------
(***************************************************************************)
(* The lifecycle state of the sessions in the store.                       *)
(***************************************************************************)

\* the record runtime p stores under sessionId, in the given store and heap
RecordAt(st, hp, p, sessionId) == hp[p][st[p][sessionId]]

\* sessionManager.getActiveSessionsForUser: the ids of the sessions listed
getActiveSessionsForUser(p, userId) ==
  {id \in DOMAIN sessionStore[p] :
     LET session == RecordAt(sessionStore, heap, p, id)
     IN /\ (session.userId1 = userId \/ session.userId2 = userId)
        /\ session.state = "established"}

\* C39: a session's lifecycle state only moves from established to rekeying:
\* no stored session has the state initiated, and the session stored under
\* an id that was rekeying is established again (and listed again by
\* getActiveSessionsForUser) only after a step of completeHandshake for the
\* same device pair
C39_RekeyingUntilNewHandshake ==
  /\ [](\A id \in DOMAIN sessionStore["p1"] :
          RecordAt(sessionStore, heap, "p1", id).state \in {"established", "rekeying"})
  /\ [][\A id \in DOMAIN sessionStore["p1"] :
          /\ (/\ id \in DOMAIN sessionStore'["p1"]
              /\ RecordAt(sessionStore, heap, "p1", id).state = "rekeying"
              /\ RecordAt(sessionStore', heap', "p1", id).state = "established")
               => \E pp \in PartyPairs, draw \in RandomDraws :
                    /\ HandshakeFor("p1", pp, draw)
                    /\ SessionIdOf(pp.userId1, pp.deviceId1, pp.userId2, pp.deviceId2) = id
          /\ (/\ id \in DOMAIN sessionStore'["p1"]
              /\ RecordAt(sessionStore, heap, "p1", id).state = "established"
              /\ RecordAt(sessionStore', heap', "p1", id).state = "rekeying")
               => \E u \in Users :
                    /\ id \in getActiveSessionsForUser("p1", u)
                    /\ id \notin getActiveSessionsForUser("p1", u)']_vars


\* C39 (amended): no operation assigns the state initiated, and no operation
\* sets the state of a session object back: an object is established from
\* its creation until rekeySession flags it rekeying, and rekeying from then
\* on.  The record stored under a session id turns from rekeying to
\* established (and is listed again by getActiveSessionsForUser) only when
\* another session object is put under that id: by a new completeHandshake
\* for a pair with that id, or by storeSession called with an established
\* session object that a caller had looked up before
C39_RekeyingUntilReplaced ==
  /\ [](\A o \in 1..HeapSize : heap["p1"][o].state \in {"none", "established", "rekeying"})
  /\ [][/\ \A o \in 1..HeapSize :
             /\ heap["p1"][o].state = "rekeying"
                  => heap'["p1"][o].state \in {"rekeying", "none"}
             /\ (heap["p1"][o].state = "established" /\ heap'["p1"][o].state = "rekeying")
                  => \E i \in 1..MaxTasks : RekeyReturn(i) /\ tasks[i].obj = o
        /\ \A id \in DOMAIN sessionStore["p1"] :
             (/\ id \in DOMAIN sessionStore'["p1"]
              /\ RecordAt(sessionStore, heap, "p1", id).state = "rekeying"
              /\ RecordAt(sessionStore', heap', "p1", id).state = "established")
               => /\ sessionStore'["p1"][id] # sessionStore["p1"][id]
                  /\ \/ \E pp \in PartyPairs, draw \in RandomDraws :
                          /\ HandshakeFor("p1", pp, draw)
                          /\ SessionIdOf(pp.userId1, pp.deviceId1,
                                         pp.userId2, pp.deviceId2) = id
                     \/ \E i \in 1..MaxTasks :
                          /\ StoreSession(i)
                          /\ heap["p1"][tasks[i].obj].sessionId = id
                          /\ heap["p1"][tasks[i].obj].state = "established"
                  /\ \E u \in Users :
                       /\ id \notin getActiveSessionsForUser("p1", u)
                       /\ id \in getActiveSessionsForUser("p1", u)']_vars

\* a session was rekeyed and a new completeHandshake has put an established
\* session under its id: a caller still holds the old object, which is
\* rekeying, and getActiveSessionsForUser lists the id again
C39_Witness ==
  \E i \in 1..MaxTasks : \E id \in DOMAIN sessionStore["p1"] :
    /\ tasks[i].kind = "held"
    /\ heap["p1"][tasks[i].obj].state = "rekeying"
    /\ heap["p1"][tasks[i].obj].sessionId = id
    /\ sessionStore["p1"][id] # tasks[i].obj
    /\ id \in getActiveSessionsForUser("p1", "alice")


----------------------------------------------------------------------------
(***************************************************************************)
(* The status "sending".                                                   *)
(***************************************************************************)

====
